---- MODULE Spec2Model ----
(***************************************************************************)
(* Multi-host connection manager of the Proxmox VE Homey app:              *)
(* HostManager (lib/HostManager.js) and the fallback executor of the       *)
(* cluster device (_executeApiCallWithFallback).                           *)
(***************************************************************************)
EXTENDS Integers, Sequences, FiniteSets, TLC

(* ---------------------------------------------------------------------- *)
(* Bounds of the model                                                     *)
(* ---------------------------------------------------------------------- *)
\* Date.now() at construction; any value larger than maxHostAge
StartTime == 1000000
\* number of instants at which the clock is read
MaxInstants == 4
MaxListInstants == 3
MaxExecInstants == 2
MaxCacheInstants == 3
\* failures recorded against one host without a reset
MaxFailures == 4
\* managed timeouts pending at once
MaxTimeouts == 3

Hosts == {"h1", "h2", "h3"}
Null == "null"

(* ---------------------------------------------------------------------- *)
(* Program constants (HostManager constructor)                             *)
(* ---------------------------------------------------------------------- *)
breakerOpen == 60000
maxHostAge == 300000
recentHost == 120000
OpenThreshold == 3
BaseScore == 1000
FailurePenalty == 100
PrimaryBonus == 50
PreferredScore == 999999

VARIABLES
  now,              \* Date.now()
  hosts,            \* this.hosts: Map in insertion order, as a sequence of entries
  circuitBreakers,  \* this.circuitBreakers: host -> breaker (state "none" = no entry)
  primaryHost,      \* this.primaryHost
  preferredHost,    \* this.preferredHost
  streak,           \* history: failures recorded on a host since its breaker was last closed with 0 failures
  calls,            \* the _executeApiCallWithFallback invocations and where each one stands
  requestCache,     \* this.requestCache: key -> { data, ts }
  pendingRequests,  \* this.pendingRequests: key -> the invocation whose promise is registered
  fallbackAlarm,    \* capability alarm_connection_fallback
  connectedHost,    \* capability status_connected_host
  available,        \* availability of the device (setUnavailable)
  tick,             \* the _performHealthCheck invocation and where it stands
  backupHosts,      \* the setting backup_hosts, as the list it is split into
  life              \* timers and lifecycle handlers of the device

hmVars == <<now, hosts, circuitBreakers, primaryHost, preferredHost, streak>>
execVars == <<calls, requestCache, pendingRequests, fallbackAlarm, connectedHost, available>>
devVars == <<tick, backupHosts, life>>
vars == <<now, hosts, circuitBreakers, primaryHost, preferredHost, streak,
          calls, requestCache, pendingRequests, fallbackAlarm, connectedHost, available,
          tick, backupHosts, life>>

NoBreaker == [failures |-> 0, lastFailure |-> 0, state |-> "none"]
NewBreaker == [failures |-> 0, lastFailure |-> 0, state |-> "closed"]
NewHostInfo(h) ==
  [host |-> h, lastSeen |-> 0, responseTime |-> 0, failureCount |-> 0,
   status |-> "unknown", lastFailure |-> 0]

(* ---------------------------------------------------------------------- *)
(* Map helpers: this.hosts is a JS Map, iterated in insertion order        *)
(* ---------------------------------------------------------------------- *)
HostKeys(hs) == {hs[i].host : i \in 1..Len(hs)}
HasHost(hs, h) == h \in HostKeys(hs)
IndexOf(hs, h) == CHOOSE i \in 1..Len(hs) : hs[i].host = h
HostGet(hs, h) == hs[IndexOf(hs, h)]
\* Map.set: an existing key keeps its position, a new key goes last
HostSet(hs, info) ==
  IF HasHost(hs, info.host)
  THEN [hs EXCEPT ![IndexOf(hs, info.host)] = info]
  ELSE Append(hs, info)

RECURSIVE FilterHosts(_, _)
FilterHosts(hs, keep) ==
  IF hs = <<>> THEN <<>>
  ELSE IF Head(hs).host \in keep
       THEN <<Head(hs)>> \o FilterHosts(Tail(hs), keep)
       ELSE FilterHosts(Tail(hs), keep)

(* ---------------------------------------------------------------------- *)
(* Circuit breaker                                                         *)
(* ---------------------------------------------------------------------- *)
\* variant: the breaker opens one failure late
RecordFailureLate(cb, h, t) ==
  LET b0 == IF cb[h].state = "none" THEN NewBreaker ELSE cb[h]
      b1 == [b0 EXCEPT !.failures = b0.failures + 1, !.lastFailure = t]
      b2 == IF b1.failures > OpenThreshold /\ b1.state # "open"
            THEN [b1 EXCEPT !.state = "open"] ELSE b1
  IN [cb EXCEPT ![h] = b2]

\* variant: a failure on an open breaker leaves the time of the last failure
RecordFailureKeepsTime(cb, h, t) ==
  LET b0 == IF cb[h].state = "none" THEN NewBreaker ELSE cb[h]
      b1 == IF b0.state = "open"
            THEN [b0 EXCEPT !.failures = b0.failures + 1]
            ELSE [b0 EXCEPT !.failures = b0.failures + 1, !.lastFailure = t]
      b2 == IF b1.failures >= OpenThreshold /\ b1.state # "open"
            THEN [b1 EXCEPT !.state = "open"] ELSE b1
  IN [cb EXCEPT ![h] = b2]

\* variant: only a closed breaker trips, a half-open one stays half-open
RecordFailureTripsClosedOnly(cb, h, t) ==
  LET b0 == IF cb[h].state = "none" THEN NewBreaker ELSE cb[h]
      b1 == [b0 EXCEPT !.failures = b0.failures + 1, !.lastFailure = t]
      b2 == IF b1.failures >= OpenThreshold /\ b1.state = "closed"
            THEN [b1 EXCEPT !.state = "open"] ELSE b1
  IN [cb EXCEPT ![h] = b2]

\* _recordFailure
RecordFailure(cb, h, t) ==
  LET b0 == IF cb[h].state = "none" THEN NewBreaker ELSE cb[h]
      b1 == [b0 EXCEPT !.failures = b0.failures + 1, !.lastFailure = t]
      b2 == IF b1.failures >= OpenThreshold /\ b1.state # "open"
            THEN [b1 EXCEPT !.state = "open"] ELSE b1
  IN [cb EXCEPT ![h] = b2]

\* variant: the reset clears the count and keeps the state
ResetKeepsState(cb, h) ==
  IF cb[h].state # "none"
  THEN [cb EXCEPT ![h] = [cb[h] EXCEPT !.failures = 0]]
  ELSE cb

\* _resetCircuitBreaker
ResetCircuitBreaker(cb, h) ==
  IF cb[h].state # "none"
  THEN [cb EXCEPT ![h] = [cb[h] EXCEPT !.failures = 0, !.state = "closed"]]
  ELSE cb

\* variant: half-open already at the timeout itself
GetCircuitBreakerStateEager(cb, h, t) ==
  IF cb[h].state = "none" THEN "closed"
  ELSE IF cb[h].state = "open" /\ t - cb[h].lastFailure >= breakerOpen
       THEN "half-open"
       ELSE cb[h].state

\* _getCircuitBreakerState: the value returned
GetCircuitBreakerState(cb, h, t) ==
  IF cb[h].state = "none" THEN "closed"
  ELSE IF cb[h].state = "open" /\ t - cb[h].lastFailure > breakerOpen
       THEN "half-open"
       ELSE cb[h].state

\* _getCircuitBreakerState: the breaker map after the hosts of S were queried
QueryBreakers(cb, S, t) ==
  [h \in Hosts |->
     IF h \in S /\ GetCircuitBreakerState(cb, h, t) = "half-open"
     THEN [cb[h] EXCEPT !.state = "half-open"]
     ELSE cb[h]]

(* ---------------------------------------------------------------------- *)
(* Preference                                                              *)
(* ---------------------------------------------------------------------- *)
\* variant: no bonus for the primary host
ScoreNoBonus(info, primary) ==
  BaseScore - info.responseTime - (info.failureCount * FailurePenalty)

Score(info, primary) ==
  BaseScore - info.responseTime - (info.failureCount * FailurePenalty)
    + (IF info.host = primary THEN PrimaryBonus ELSE 0)

\* the loop of _updatePreferredHost; bestHost = Null stands for bestScore = -Infinity
RECURSIVE BestHostLoop(_, _, _, _, _, _)
BestHostLoop(hs, cb, primary, t, bestHost, bestScore) ==
  IF hs = <<>> THEN bestHost
  ELSE LET info == Head(hs)
           score == Score(info, primary)
       IN IF GetCircuitBreakerState(cb, info.host, t) = "open"
          THEN BestHostLoop(Tail(hs), cb, primary, t, bestHost, bestScore)
          ELSE IF t - info.lastSeen > maxHostAge
          THEN BestHostLoop(Tail(hs), cb, primary, t, bestHost, bestScore)
          ELSE IF bestHost = Null \/ score > bestScore
          THEN BestHostLoop(Tail(hs), cb, primary, t, info.host, score)
          ELSE BestHostLoop(Tail(hs), cb, primary, t, bestHost, bestScore)

\* variant: the preference stays where it is while the preferred host's
\* breaker is not open
UpdatePreferredHostSticky(hs, cb, primary, preferred, t) ==
  IF preferred # Null /\ HasHost(hs, preferred)
       /\ GetCircuitBreakerState(cb, preferred, t) # "open"
  THEN preferred
  ELSE LET bestHost == BestHostLoop(hs, cb, primary, t, Null, 0)
       IN IF bestHost # Null THEN bestHost ELSE preferred

\* _updatePreferredHost: the new value of this.preferredHost
UpdatePreferredHost(hs, cb, primary, preferred, t) ==
  LET bestHost == BestHostLoop(hs, cb, primary, t, Null, 0)
  IN IF bestHost # Null /\ bestHost # preferred THEN bestHost ELSE preferred

(* ---------------------------------------------------------------------- *)
(* Ordered host list                                                       *)
(* ---------------------------------------------------------------------- *)
\* variant: insertion into a list sorted by ascending score
RECURSIVE InsertAsc(_, _)
InsertAsc(sorted, c) ==
  IF sorted = <<>> THEN <<c>>
  ELSE IF Head(sorted).score <= c.score
       THEN <<Head(sorted)>> \o InsertAsc(Tail(sorted), c)
       ELSE <<c>> \o sorted

\* stable insertion into a list sorted by descending score
RECURSIVE InsertDesc(_, _)
InsertDesc(sorted, c) ==
  IF sorted = <<>> THEN <<c>>
  ELSE IF Head(sorted).score >= c.score
       THEN <<Head(sorted)>> \o InsertDesc(Tail(sorted), c)
       ELSE <<c>> \o sorted

\* candidates.sort((a, b) => b.score - a.score), a stable sort
RECURSIVE SortDesc(_)
SortDesc(cands) ==
  IF cands = <<>> THEN <<>>
  ELSE InsertDesc(SortDesc(SubSeq(cands, 1, Len(cands) - 1)), cands[Len(cands)])

\* step 1 of getOrderedHostList: the preferred host
PreferredCandidate(hs, cb, preferred, t) ==
  IF preferred # Null /\ HasHost(hs, preferred)
     /\ GetCircuitBreakerState(cb, preferred, t) # "open"
     /\ t - HostGet(hs, preferred).lastSeen < recentHost
  THEN <<[host |-> preferred, score |-> PreferredScore]>>
  ELSE <<>>

\* variant: step 2 without the breaker test
RECURSIVE OtherCandidatesAnyBreaker(_, _, _, _)
OtherCandidatesAnyBreaker(hs, cb, preferred, t) ==
  IF hs = <<>> THEN <<>>
  ELSE LET info == Head(hs)
           rest == OtherCandidatesAnyBreaker(Tail(hs), cb, preferred, t)
       IN IF info.host = preferred THEN rest
          ELSE IF t - info.lastSeen > maxHostAge THEN rest
          ELSE <<[host |-> info.host, score |-> 0 - info.responseTime]>> \o rest

\* step 2 of getOrderedHostList: the other hosts, in Map order
RECURSIVE OtherCandidates(_, _, _, _)
OtherCandidates(hs, cb, preferred, t) ==
  IF hs = <<>> THEN <<>>
  ELSE LET info == Head(hs)
           rest == OtherCandidates(Tail(hs), cb, preferred, t)
       IN IF info.host = preferred THEN rest
          ELSE IF GetCircuitBreakerState(cb, info.host, t) = "open" THEN rest
          ELSE IF t - info.lastSeen > maxHostAge THEN rest
          ELSE <<[host |-> info.host, score |-> 0 - info.responseTime]>> \o rest

\* variant: no last-resort primary
GetOrderedHostListNoFallback(hs, cb, primary, preferred, t) ==
  LET candidates == SortDesc(PreferredCandidate(hs, cb, preferred, t)
                             \o OtherCandidates(hs, cb, preferred, t))
  IN [i \in 1..Len(candidates) |-> candidates[i].host]

\* getOrderedHostList: the list returned
GetOrderedHostList(hs, cb, primary, preferred, t) ==
  LET candidates == SortDesc(PreferredCandidate(hs, cb, preferred, t)
                             \o OtherCandidates(hs, cb, preferred, t))
  IN IF Len(candidates) = 0 /\ primary # Null
     THEN <<primary>>
     ELSE [i \in 1..Len(candidates) |-> candidates[i].host]

\* getOrderedHostList: the breakers whose state it queries
ListQueried(hs, preferred) ==
  (HostKeys(hs) \cup {preferred}) \cap Hosts

(* ---------------------------------------------------------------------- *)
(* updateHostStatus, on a registry value [hosts, cb, preferred]            *)
(* ---------------------------------------------------------------------- *)
CurrentInfo(hs, h) == IF HasHost(hs, h) THEN HostGet(hs, h) ELSE NewHostInfo(h)

\* variant: a success lowers the failure count by one
UpdateSuccessGradual(reg, primary, h, rt, t) ==
  LET cur == CurrentInfo(reg.hosts, h)
      fc == IF cur.failureCount > 0 THEN cur.failureCount - 1 ELSE 0
      hs1 == HostSet(reg.hosts, [cur EXCEPT !.lastSeen = t, !.status = "healthy",
                                            !.responseTime = rt, !.failureCount = fc])
      cb1 == ResetCircuitBreaker(reg.cb, h)
  IN [hosts |-> hs1,
      cb |-> QueryBreakers(cb1, HostKeys(hs1), t),
      preferred |-> UpdatePreferredHost(hs1, cb1, primary, reg.preferred, t)]

\* the success branch of updateHostStatus
UpdateSuccess(reg, primary, h, rt, t) ==
  LET cur == CurrentInfo(reg.hosts, h)
      hs1 == HostSet(reg.hosts, [cur EXCEPT !.lastSeen = t, !.status = "healthy",
                                            !.responseTime = rt, !.failureCount = 0])
      cb1 == ResetCircuitBreaker(reg.cb, h)
  IN [hosts |-> hs1,
      cb |-> QueryBreakers(cb1, HostKeys(hs1), t),
      preferred |-> UpdatePreferredHost(hs1, cb1, primary, reg.preferred, t)]

\* the failure branch of updateHostStatus
UpdateFailure(reg, h, t) ==
  LET cur == CurrentInfo(reg.hosts, h)
  IN [hosts |-> HostSet(reg.hosts, [cur EXCEPT !.failureCount = cur.failureCount + 1,
                                               !.status = "unhealthy",
                                               !.lastFailure = t]),
      cb |-> RecordFailure(reg.cb, h, t),
      preferred |-> reg.preferred]

\* updateHostStatus(host, success, responseTime)
UpdateHostStatusOp(reg, primary, h, success, rt, t) ==
  IF success THEN UpdateSuccess(reg, primary, h, rt, t) ELSE UpdateFailure(reg, h, t)

StreakAfterUpdate(st, h, success) ==
  IF success THEN [st EXCEPT ![h] = 0] ELSE [st EXCEPT ![h] = st[h] + 1]

(* ---------------------------------------------------------------------- *)
(* initialize                                                              *)
(* ---------------------------------------------------------------------- *)
\* the loop of initialize over initialHosts
RECURSIVE InitializeLoop(_, _, _, _)
InitializeLoop(reg, primary, initialHosts, t) ==
  IF initialHosts = <<>> THEN reg
  ELSE LET h == Head(initialHosts)
       IN IF h # "" /\ h # primary
          THEN InitializeLoop(UpdateHostStatusOp(reg, primary, h, TRUE, 0, t),
                              primary, Tail(initialHosts), t)
          ELSE InitializeLoop(reg, primary, Tail(initialHosts), t)

\* variant: only the primary is registered, the backups are left out
InitializePrimaryOnly(reg, p, initialHosts, t) ==
  UpdateHostStatusOp([reg EXCEPT !.preferred = p], p, p, TRUE, 0, t)

\* initialize(primaryHost, initialHosts)
InitializeOp(reg, p, initialHosts, t) ==
  InitializeLoop(UpdateHostStatusOp([reg EXCEPT !.preferred = p], p, p, TRUE, 0, t),
                 p, initialHosts, t)

BackupLists ==
  {<<>>} \cup {<<a>> : a \in Hosts \cup {""}}
         \cup {<<a, b>> : a \in Hosts \cup {""}, b \in Hosts}

(* ---------------------------------------------------------------------- *)
(* Fallback executor of the cluster device: data                           *)
(* ---------------------------------------------------------------------- *)
Calls == {"c1", "c2"}
NoCall == "none"
UrlPath == "/cluster/status"

\* the options a caller passes: an option that is not given is absent from
\* the object (Absent, 0 or FALSE here)
Absent == ""
GetPlain == [method |-> Absent, body |-> Absent, timeout |-> 0,
             skipCache |-> FALSE, refreshCache |-> FALSE]
GetRefresh == [GetPlain EXCEPT !.refreshCache = TRUE]
GetSkip == [GetPlain EXCEPT !.skipCache = TRUE]
GetExplicit == [GetPlain EXCEPT !.method = "GET"]
GetTimeout == [GetPlain EXCEPT !.timeout = 5000]
PostCommand == [GetPlain EXCEPT !.method = "POST", !.body = "overrule-shutdown=1"]
RequestOptions == {GetPlain, GetRefresh, GetSkip, GetExplicit, GetTimeout, PostCommand}

\* (options.method || 'GET') === 'GET'
IsGet(options) == options.method \in {Absent, "GET"}

\* variant: the key is the path alone
CacheKeyPathOnly(urlPath, options) == <<urlPath, Absent, Absent, 0, FALSE, FALSE>>

\* `${urlPath}:${JSON.stringify(options)}`: the path and every option given
CacheKey(urlPath, options) ==
  <<urlPath, options.method, options.body, options.timeout,
    options.skipCache, options.refreshCache>>
CacheKeys == {CacheKey(UrlPath, o) : o \in RequestOptions}

cacheTimeout == 300000

\* a payload is the parsed body of a response, told apart by the host that
\* sent it and the instant; an empty body parses to null
NullPayload == [host |-> Null, at |-> 0]

NoEntry == [data |-> NullPayload, ts |-> 0, present |-> FALSE]
NoError == [statusCode |-> 0, host |-> Null]
NoResult == [kind |-> "none", error |-> NoError, data |-> [host |-> Null, at |-> 0]]
Success(data) == [kind |-> "ok", error |-> NoError, data |-> data]
Failure(error) == [kind |-> "error", error |-> error, data |-> [host |-> Null, at |-> 0]]

IdleCall ==
  [pc |-> "idle", options |-> GetPlain, hostList |-> <<>>, idx |-> 0,
   attempts |-> <<>>, lastError |-> NoError, payload |-> [host |-> Null, at |-> 0],
   isUsingFallback |-> FALSE, owner |-> NoCall, result |-> NoResult,
   failuresBefore |-> [h \in Hosts |-> 0]]

\* what a host request can settle with: 0 is an error without statusCode
\* (network error, timeout), 200 a response, the others a non-ok response
\* (response.ok: 200 with a JSON body, 204 with an empty body)
NoStatus == 0
StatusOk == 200
StatusNoContent == 204
Statuses == {NoStatus, StatusOk, StatusNoContent, 400, 404, 499, 500, 503}

\* ProxmoxClient.request: the value a response.ok response resolves to
ParsedBody(statusCode, host, t) ==
  IF statusCode = StatusNoContent THEN NullPayload ELSE [host |-> host, at |-> t]

\* _getCachedResponse(key): entry.data, or null
GetCachedResponse(cache, key, t) ==
  IF cache[key].present /\ t - cache[key].ts < cacheTimeout
  THEN cache[key].data
  ELSE NullPayload

\* _setCachedResponse(key, data)
SetCachedResponse(cache, key, data, t) ==
  [cache EXCEPT ![key] = [data |-> data, ts |-> t, present |-> TRUE]]

\* variant: every error with a status code stops the failover
DoNotFailoverAnyStatus(statusCode) ==
  statusCode # NoStatus /\ statusCode >= 400

\* variant: only authentication errors stop the failover
DoNotFailoverAuthOnly(statusCode) ==
  statusCode \in {401, 403}

\* variant: an error without status code stops the failover too
DoNotFailoverBelow500(statusCode) ==
  statusCode < 500

\* error.statusCode && error.statusCode >= 400 && error.statusCode < 500
DoNotFailover(statusCode) ==
  statusCode # NoStatus /\ statusCode >= 400 /\ statusCode < 500

(* ---------------------------------------------------------------------- *)
(* State machine of the HostManager                                        *)
(* ---------------------------------------------------------------------- *)
Registry == [hosts |-> hosts, cb |-> circuitBreakers, preferred |-> preferredHost]

\* the instants (offsets from StartTime) at which the clock is read: they
\* straddle breakerOpen, recentHost and maxHostAge
Instant(k) ==
  CASE k = 1 -> 0
    [] k = 2 -> breakerOpen
    [] k = 3 -> breakerOpen + 1
    [] k = 4 -> recentHost
    [] k = 5 -> maxHostAge
    [] k = 6 -> maxHostAge + 1
    [] OTHER -> maxHostAge + 1 + (k - 6) * breakerOpen

\* a sparser choice of instants, straddling recentHost and maxHostAge
ListInstant(k) ==
  CASE k = 1 -> 0
    [] k = 2 -> recentHost
    [] k = 3 -> recentHost + maxHostAge
    [] k = 4 -> recentHost + maxHostAge + 1
    [] OTHER -> recentHost + maxHostAge + 1 + (k - 4) * breakerOpen

\* the latency each host answers with: h1 is slow, h2 fast
Latency(h) == CASE h = "h1" -> 500 [] h = "h2" -> 10 [] OTHER -> 0

\* no health check is running; the other fields keep what the last one did
IdleTick ==
  [pc |-> "idle", fetched |-> "none", online |-> <<>>, sortedNew |-> <<>>,
   persisted |-> FALSE, nodes |-> <<>>, i |-> 0, probed |-> <<>>, swept |-> FALSE]

\* the device before onInit: no timer is set
NewDevice ==
  [init |-> "new", settings |-> "idle", added |-> FALSE, deleted |-> FALSE,
   updateIntervalId |-> FALSE, healthCheckIntervalId |-> FALSE, activeTimeouts |-> 0]

TypeOK ==
  /\ now \in Nat
  /\ primaryHost \in Hosts \cup {Null}
  /\ preferredHost \in Hosts \cup {Null}
  /\ \A i \in 1..Len(hosts) : hosts[i].host \in Hosts
  /\ \A h \in Hosts : circuitBreakers[h].state \in {"none", "closed", "open", "half-open"}

Init ==
  /\ now = StartTime
  /\ hosts = <<>>
  /\ circuitBreakers = [h \in Hosts |-> NoBreaker]
  /\ primaryHost = Null
  /\ preferredHost = Null
  /\ streak = [h \in Hosts |-> 0]
  /\ calls = [c \in Calls |-> IdleCall]
  /\ requestCache = [k \in CacheKeys |-> NoEntry]
  /\ pendingRequests = [k \in CacheKeys |-> NoCall]
  /\ fallbackAlarm = Null
  /\ connectedHost = Null
  /\ available = TRUE
  /\ tick = IdleTick
  /\ backupHosts = <<>>
  /\ life = NewDevice

\* initialize(primaryHost, initialHosts), called once from onInit
Initialize(p, initialHosts) ==
  /\ primaryHost = Null
  /\ LET reg == InitializeOp(Registry, p, initialHosts, now)
     IN /\ hosts' = reg.hosts
        /\ circuitBreakers' = reg.cb
        /\ preferredHost' = reg.preferred
  /\ primaryHost' = p
  /\ UNCHANGED <<now, streak>>
  /\ UNCHANGED execVars
  /\ UNCHANGED devVars

\* setPrimaryHost(host)
SetPrimaryHost(h) ==
  /\ primaryHost # Null
  /\ primaryHost' = h
  /\ circuitBreakers' = ResetCircuitBreaker(circuitBreakers, h)
  /\ preferredHost' = h
  /\ streak' = [streak EXCEPT ![h] = 0]
  /\ UNCHANGED <<now, hosts>>
  /\ UNCHANGED execVars
  /\ UNCHANGED devVars

\* updateHostStatus(host, success, responseTime)
UpdateHostStatus(h, success, rt) ==
  /\ primaryHost # Null
  /\ success \/ (CurrentInfo(hosts, h).failureCount < MaxFailures
                 /\ circuitBreakers[h].failures < MaxFailures)
  /\ LET reg == UpdateHostStatusOp(Registry, primaryHost, h, success, rt, now)
     IN /\ hosts' = reg.hosts
        /\ circuitBreakers' = reg.cb
        /\ preferredHost' = reg.preferred
  /\ streak' = StreakAfterUpdate(streak, h, success)
  /\ UNCHANGED <<now, primaryHost>>
  /\ UNCHANGED execVars
  /\ UNCHANGED devVars

\* _getCircuitBreakerState(host)
QueryState(h) ==
  /\ primaryHost # Null
  /\ circuitBreakers' = QueryBreakers(circuitBreakers, {h}, now)
  /\ UNCHANGED <<now, hosts, primaryHost, preferredHost, streak>>
  /\ UNCHANGED execVars
  /\ UNCHANGED devVars

\* getOrderedHostList()
QueryList ==
  /\ primaryHost # Null
  /\ circuitBreakers' = QueryBreakers(circuitBreakers, ListQueried(hosts, preferredHost), now)
  /\ UNCHANGED <<now, hosts, primaryHost, preferredHost, streak>>
  /\ UNCHANGED execVars
  /\ UNCHANGED devVars

\* variant: the sweep drops the host records and keeps their breakers
CleanupKeepsBreakers ==
  /\ primaryHost # Null
  /\ LET stale == {h \in HostKeys(hosts) : now - HostGet(hosts, h).lastSeen > maxHostAge}
     IN /\ hosts' = FilterHosts(hosts, HostKeys(hosts) \ stale)
        /\ streak' = [h \in Hosts |-> IF h \in stale THEN 0 ELSE streak[h]]
  /\ UNCHANGED <<now, circuitBreakers, primaryHost, preferredHost>>
  /\ UNCHANGED execVars
  /\ UNCHANGED devVars

\* cleanup()
Cleanup ==
  /\ primaryHost # Null
  /\ LET stale == {h \in HostKeys(hosts) : now - HostGet(hosts, h).lastSeen > maxHostAge}
     IN /\ hosts' = FilterHosts(hosts, HostKeys(hosts) \ stale)
        /\ circuitBreakers' = [h \in Hosts |-> IF h \in stale THEN NoBreaker
                                                ELSE circuitBreakers[h]]
        /\ streak' = [h \in Hosts |-> IF h \in stale THEN 0 ELSE streak[h]]
  /\ UNCHANGED <<now, primaryHost, preferredHost>>
  /\ UNCHANGED execVars
  /\ UNCHANGED devVars

\* the clock moves on to the next instant
Tick ==
  /\ \E k \in 1..(MaxInstants - 1) :
       /\ now = StartTime + Instant(k)
       /\ now' = StartTime + Instant(k + 1)
  /\ UNCHANGED <<hosts, circuitBreakers, primaryHost, preferredHost, streak>>
  /\ UNCHANGED execVars
  /\ UNCHANGED devVars

ListTick ==
  /\ \E k \in 1..(MaxListInstants - 1) :
       /\ now = StartTime + ListInstant(k)
       /\ now' = StartTime + ListInstant(k + 1)
  /\ UNCHANGED <<hosts, circuitBreakers, primaryHost, preferredHost, streak>>
  /\ UNCHANGED execVars
  /\ UNCHANGED devVars

\* every operation on the breakers of two hosts
BreakerHosts == {"h1", "h2"}
TrippingHosts == {"h1"}
Next ==
  \/ \E p \in BreakerHosts, bl \in {<<>>, <<"h1">>, <<"h2">>} : Initialize(p, bl)
  \/ \E h \in BreakerHosts : SetPrimaryHost(h)
  \/ \E h \in BreakerHosts : UpdateHostStatus(h, TRUE, 0)
  \/ \E h \in TrippingHosts : UpdateHostStatus(h, FALSE, 0)
  \/ \E h \in TrippingHosts : QueryState(h)
  \/ QueryList
  \/ Cleanup
  \/ Tick

Spec == Init /\ [][Next]_vars

\* preference and ordering over three hosts, one of which fails
AnsweringHosts == {"h1", "h2"}
FailingHosts == {"h3"}
PromotedHosts == {"h2", "h3"}
NextList ==
  \/ \E p \in Hosts, bl \in BackupLists : Initialize(p, bl)
  \/ \E h \in PromotedHosts : SetPrimaryHost(h)
  \/ \E h \in AnsweringHosts : UpdateHostStatus(h, TRUE, Latency(h))
  \/ \E h \in FailingHosts : UpdateHostStatus(h, FALSE, 0)
  \/ QueryList
  \/ Cleanup
  \/ ListTick

SpecList == Init /\ [][NextList]_vars

(* ---------------------------------------------------------------------- *)
(* The ping loop of _performHealthCheck                                    *)
(* ---------------------------------------------------------------------- *)
\* variant: the preferred host is not probed
NodesToPingNoPreferred(primary, preferred, other) ==
  IF other # Null THEN <<primary, other>> ELSE <<primary>>

\* nodesToPing: a Set holding the primary, the preferred host when there is
\* one, and one other online node; a Set keeps insertion order, no duplicate
NodesToPing(primary, preferred, other) ==
  LET withPreferred == IF preferred # Null /\ preferred # primary
                       THEN <<primary, preferred>> ELSE <<primary>>
  IN IF other # Null THEN Append(withPreferred, other) ELSE withPreferred

\* for (const host of nodesToPing): a ping that answers records a success with
\* the measured latency, a ping that throws records a failure
RECURSIVE PingLoop(_, _, _, _, _, _)
PingLoop(reg, primary, nodes, ok, lat, t) ==
  IF nodes = <<>> THEN reg
  ELSE PingLoop(UpdateHostStatusOp(reg, primary, Head(nodes), ok[Head(nodes)],
                                   IF ok[Head(nodes)] THEN lat[Head(nodes)] ELSE 0, t),
                primary, Tail(nodes), ok, lat, t)

RECURSIVE StreakAfterPings(_, _, _)
StreakAfterPings(st, nodes, ok) ==
  IF nodes = <<>> THEN st
  ELSE StreakAfterPings(StreakAfterUpdate(st, Head(nodes), ok[Head(nodes)]), Tail(nodes), ok)

\* cleanup() on a registry: hosts not seen for more than maxHostAge are dropped
CleanupOp(reg, t) ==
  LET stale == {h \in HostKeys(reg.hosts) : t - HostGet(reg.hosts, h).lastSeen > maxHostAge}
  IN [reg EXCEPT !.hosts = FilterHosts(reg.hosts, HostKeys(reg.hosts) \ stale),
                 !.cb = [h \in Hosts |-> IF h \in stale THEN NoBreaker ELSE reg.cb[h]]]

\* the nodes the cluster reports and the latencies a ping measures
ProbeNodes == {"h1", "h2"}
ProbeLatencies(h) == IF h = "h1" THEN {10, 400, 500} ELSE {10}

\* one health check, from the choice of the nodes to ping to cleanup()
HealthCheckPings(other, ok, lat) ==
  /\ primaryHost # Null
  /\ other \in {Null} \cup (ProbeNodes \ {primaryHost, preferredHost})
  /\ LET nodes == NodesToPing(primaryHost, preferredHost, other)
         pinged == {nodes[i] : i \in 1..Len(nodes)}
     IN /\ \A h \in pinged : ok[h] \/ (CurrentInfo(hosts, h).failureCount < MaxFailures
                                        /\ circuitBreakers[h].failures < MaxFailures)
        /\ \E pings \in {PingLoop(Registry, primaryHost, nodes, ok, lat, now)} :
             \E reg \in {CleanupOp(pings, now)} :
               /\ hosts' = reg.hosts
               /\ circuitBreakers' = reg.cb
               /\ preferredHost' = reg.preferred
               /\ streak' = [h \in Hosts |->
                               IF HasHost(pings.hosts, h) /\ ~HasHost(reg.hosts, h)
                               THEN 0 ELSE StreakAfterPings(streak, nodes, ok)[h]]
  /\ UNCHANGED <<now, primaryHost>>
  /\ UNCHANGED execVars
  /\ UNCHANGED devVars

HealthCheck ==
  \E other \in ProbeNodes \cup {Null}, ok \in [ProbeNodes -> BOOLEAN],
     lat \in {l \in [ProbeNodes -> {10, 400, 500}] : \A h \in ProbeNodes : l[h] \in ProbeLatencies(h)} :
       HealthCheckPings(other, ok, lat)

\* the health check runs on an interval timer for as long as the device lives
ProbePrimary == "h1"
ProbeBackups == {<<"h2">>}
NextProbe ==
  \/ \E bl \in ProbeBackups : Initialize(ProbePrimary, bl)
  \/ HealthCheck
  \/ ListTick

SpecProbe == Init /\ [][NextProbe]_vars /\ WF_vars(HealthCheck)

(* ---------------------------------------------------------------------- *)
(* Fallback executor of the cluster device: _executeApiCallWithFallback    *)
(* ---------------------------------------------------------------------- *)
\* variant: the fallback flag is never raised
CapabilityOfNever(b) == "false"

\* a capability value holding a boolean
CapabilityOf(b) == IF b THEN "true" ELSE "false"

\* variant: no request promise is registered
RegistersNever(options) == FALSE

\* variant: every request promise is registered and its result cached
RegistersAlways(options) == TRUE

Registers(options) == IsGet(options) /\ ~options.skipCache

\* variant: a forced refresh reads the cache like any other GET
ReadsCacheOnRefresh(options) == IsGet(options) /\ ~options.skipCache

ReadsCache(options) ==
  IsGet(options) /\ ~options.skipCache /\ ~options.refreshCache

\* history: the failureCount of every host, as an invocation finds it
FailureCounts(hs) == [h \in Hosts |-> CurrentInfo(hs, h).failureCount]

\* variant: only the invocation that owns the promise resolves with it
SettledCallsOwnerOnly(c, result) ==
  [d \in Calls |->
     IF d = c THEN [calls[d] EXCEPT !.pc = "done", !.result = result] ELSE calls[d]]

\* the request promise of invocation c settles with result: c and the
\* invocations that were handed its promise resolve with it, and, when c
\* registered its promise, a success is cached and the registration removed
SettledCalls(c, result) ==
  [d \in Calls |->
     IF d = c \/ (calls[d].pc = "attached" /\ calls[d].owner = c)
     THEN [calls[d] EXCEPT !.pc = "done", !.result = result]
     ELSE calls[d]]

SettledCache(c, result) ==
  IF Registers(calls[c].options) /\ result.kind = "ok"
  THEN SetCachedResponse(requestCache, CacheKey(UrlPath, calls[c].options), result.data, now)
  ELSE requestCache

\* variant: the registration stays when the promise settles
SettledPendingKept(c) == pendingRequests

SettledPending(c) ==
  IF Registers(calls[c].options)
  THEN [pendingRequests EXCEPT ![CacheKey(UrlPath, calls[c].options)] = NoCall]
  ELSE pendingRequests

Settle(c, result) ==
  /\ calls' = SettledCalls(c, result)
  /\ requestCache' = SettledCache(c, result)
  /\ pendingRequests' = SettledPending(c)

\* variant: the requests to all hosts of the list are issued together
AllAttempts(list) == list

\* for (const host of hosts) { ... await request(host, ...) }: the loop issues
\* the request to the first host and waits for it
FirstAttempts(list) == <<list[1]>>

\* _executeApiCallWithFallback(urlPath, options) up to its first await
StartCall(c, options) ==
  /\ primaryHost # Null
  /\ calls[c].pc = "idle"
  /\ LET key == CacheKey(UrlPath, options)
         list == GetOrderedHostList(hosts, circuitBreakers, primaryHost, preferredHost, now)
         cached == GetCachedResponse(requestCache, key, now)
     IN IF ReadsCache(options) /\ cached # NullPayload
        THEN /\ calls' = [calls EXCEPT ![c] =
                            [IdleCall EXCEPT !.pc = "done", !.options = options,
                                             !.result = Success(cached)]]
             /\ UNCHANGED <<circuitBreakers, requestCache, pendingRequests>>
        ELSE IF ReadsCache(options) /\ pendingRequests[key] # NoCall
        THEN /\ calls' = [calls EXCEPT ![c] =
                            [IdleCall EXCEPT !.pc = "attached", !.options = options,
                                             !.owner = pendingRequests[key]]]
             /\ UNCHANGED <<circuitBreakers, requestCache, pendingRequests>>
        ELSE /\ circuitBreakers' =
                  QueryBreakers(circuitBreakers, ListQueried(hosts, preferredHost), now)
             /\ IF Len(list) = 0
                THEN /\ calls' = [calls EXCEPT ![c] =
                                    [IdleCall EXCEPT !.pc = "done", !.options = options,
                                                     !.result = Failure(NoError)]]
                     /\ UNCHANGED <<requestCache, pendingRequests>>
                ELSE /\ calls' = [calls EXCEPT ![c] =
                                    [IdleCall EXCEPT !.pc = "request", !.options = options,
                                                     !.hostList = list, !.idx = 1,
                                                     !.attempts = FirstAttempts(list),
                                                     !.failuresBefore = FailureCounts(hosts)]]
                     /\ pendingRequests' =
                          IF Registers(options)
                          THEN [pendingRequests EXCEPT ![key] = c]
                          ELSE pendingRequests
                     /\ UNCHANGED requestCache
  /\ UNCHANGED <<now, hosts, primaryHost, preferredHost, streak,
                 fallbackAlarm, connectedHost, available>>

\* a call of a driver, a node device or the poller
Start(c, options) ==
  /\ StartCall(c, options)
  /\ UNCHANGED devVars

\* variant: the success is recorded with the latency the host answered with
MeasuredLatency(host) == Latency(host)

\* this.hostManager.updateHostStatus(host, true, 0): the latency is not measured
RecordedLatency(host) == 0

\* the request to the current host returned a response: the success branch
RespondOk(c, statusCode) ==
  LET host == calls[c].hostList[calls[c].idx]
      reg == UpdateHostStatusOp(Registry, primaryHost, host, TRUE, RecordedLatency(host), now)
      isUsingFallback == host # primaryHost
      payload == ParsedBody(statusCode, host, now)
      served == [calls[c] EXCEPT !.payload = payload, !.isUsingFallback = isUsingFallback]
  IN /\ hosts' = reg.hosts
     /\ circuitBreakers' = reg.cb
     /\ preferredHost' = reg.preferred
     /\ streak' = StreakAfterUpdate(streak, host, TRUE)
     /\ IF fallbackAlarm # CapabilityOf(isUsingFallback)
        THEN /\ calls' = [calls EXCEPT ![c] = [served EXCEPT !.pc = "capFallback"]]
             /\ UNCHANGED <<requestCache, pendingRequests>>
        ELSE IF connectedHost # host
        THEN /\ calls' = [calls EXCEPT ![c] = [served EXCEPT !.pc = "capHost"]]
             /\ UNCHANGED <<requestCache, pendingRequests>>
        ELSE Settle(c, Success(payload))
     /\ UNCHANGED <<now, primaryHost, fallbackAlarm, connectedHost, available>>
     /\ UNCHANGED devVars

\* the request to the current host failed: the catch branch
RespondError(c, statusCode) ==
  LET host == calls[c].hostList[calls[c].idx]
      reg == UpdateHostStatusOp(Registry, primaryHost, host, FALSE, 0, now)
      error == [statusCode |-> statusCode, host |-> host]
  IN /\ CurrentInfo(hosts, host).failureCount < MaxFailures
     /\ circuitBreakers[host].failures < MaxFailures
     /\ hosts' = reg.hosts
     /\ circuitBreakers' = reg.cb
     /\ preferredHost' = reg.preferred
     /\ streak' = StreakAfterUpdate(streak, host, FALSE)
     /\ IF DoNotFailover(statusCode)
        THEN Settle(c, Failure(error))
        ELSE IF calls[c].idx < Len(calls[c].hostList)
        THEN /\ calls' = [calls EXCEPT ![c] =
                            [calls[c] EXCEPT !.idx = calls[c].idx + 1,
                                             !.attempts = Append(calls[c].attempts,
                                                                 calls[c].hostList[calls[c].idx + 1]),
                                             !.lastError = error]]
             /\ UNCHANGED <<requestCache, pendingRequests>>
        ELSE IF fallbackAlarm # "true"
        THEN /\ calls' = [calls EXCEPT ![c] =
                            [calls[c] EXCEPT !.pc = "unavailable", !.lastError = error]]
             /\ UNCHANGED <<requestCache, pendingRequests>>
        ELSE Settle(c, Failure(error))
     /\ UNCHANGED <<now, primaryHost, fallbackAlarm, connectedHost, available>>
     /\ UNCHANGED devVars

\* await this.proxmoxClient.request(host, urlPath, options) settles
Respond(c, statusCode) ==
  /\ calls[c].pc = "request"
  /\ IF statusCode \in {StatusOk, StatusNoContent}
     THEN RespondOk(c, statusCode)
     ELSE RespondError(c, statusCode)

\* await this._updateCapability('alarm_connection_fallback', isUsingFallback)
SetFallbackCapability(c) ==
  /\ calls[c].pc = "capFallback"
  /\ fallbackAlarm' = CapabilityOf(calls[c].isUsingFallback)
  /\ IF connectedHost # calls[c].hostList[calls[c].idx]
     THEN /\ calls' = [calls EXCEPT ![c].pc = "capHost"]
          /\ UNCHANGED <<requestCache, pendingRequests>>
     ELSE Settle(c, Success(calls[c].payload))
  /\ UNCHANGED <<now, hosts, circuitBreakers, primaryHost, preferredHost, streak,
                 connectedHost, available>>
  /\ UNCHANGED devVars

\* await this._updateCapability('status_connected_host', currentHost)
SetHostCapability(c) ==
  /\ calls[c].pc = "capHost"
  /\ connectedHost' = calls[c].hostList[calls[c].idx]
  /\ Settle(c, Success(calls[c].payload))
  /\ UNCHANGED <<now, hosts, circuitBreakers, primaryHost, preferredHost, streak,
                 fallbackAlarm, available>>
  /\ UNCHANGED devVars

\* variant: the device is not marked unavailable
SetUnavailableSkipped(c) ==
  /\ calls[c].pc = "unavailable"
  /\ Settle(c, Failure(calls[c].lastError))
  /\ UNCHANGED <<now, hosts, circuitBreakers, primaryHost, preferredHost, streak,
                 fallbackAlarm, connectedHost, available>>
  /\ UNCHANGED devVars

\* await this.setUnavailable(...), then throw lastError
SetUnavailable(c) ==
  /\ calls[c].pc = "unavailable"
  /\ available' = FALSE
  /\ Settle(c, Failure(calls[c].lastError))
  /\ UNCHANGED <<now, hosts, circuitBreakers, primaryHost, preferredHost, streak,
                 fallbackAlarm, connectedHost>>
  /\ UNCHANGED devVars

\* the caller has taken the outcome of its invocation
Return(c) ==
  /\ calls[c].pc = "done"
  /\ calls' = [calls EXCEPT ![c] = IdleCall]
  /\ UNCHANGED <<now, hosts, circuitBreakers, primaryHost, preferredHost, streak,
                 requestCache, pendingRequests, fallbackAlarm, connectedHost, available>>
  /\ UNCHANGED devVars

\* the instants at which the clock is read while calls run
ExecInstant(k) ==
  CASE k = 1 -> 0
    [] k = 2 -> recentHost
    [] k = 3 -> cacheTimeout
    [] OTHER -> cacheTimeout + (k - 3) * (breakerOpen + 1)

ExecTick ==
  /\ \E k \in 1..(MaxExecInstants - 1) :
       /\ now = StartTime + ExecInstant(k)
       /\ now' = StartTime + ExecInstant(k + 1)
  /\ UNCHANGED <<hosts, circuitBreakers, primaryHost, preferredHost, streak>>
  /\ UNCHANGED execVars
  /\ UNCHANGED devVars

\* the instants at which the clock is read around the expiry of a cache entry
CacheInstant(k) ==
  CASE k = 1 -> 0
    [] k = 2 -> cacheTimeout - 1
    [] k = 3 -> cacheTimeout
    [] OTHER -> (k - 2) * cacheTimeout

CacheTick ==
  /\ \E k \in 1..(MaxCacheInstants - 1) :
       /\ now = StartTime + CacheInstant(k)
       /\ now' = StartTime + CacheInstant(k + 1)
  /\ UNCHANGED <<hosts, circuitBreakers, primaryHost, preferredHost, streak>>
  /\ UNCHANGED execVars
  /\ UNCHANGED devVars

\* one caller at a time against a primary with or without a backup
ExecPrimary == "h1"
ExecBackups == {<<>>, <<"h2">>}
ExecOptions == {GetPlain, PostCommand}
ExecCallers == {"c1"}
NextExec ==
  \/ \E bl \in ExecBackups : Initialize(ExecPrimary, bl)
  \/ \E c \in ExecCallers, o \in ExecOptions : Start(c, o)
  \/ \E c \in ExecCallers, sc \in Statuses : Respond(c, sc)
  \/ \E c \in ExecCallers : SetFallbackCapability(c)
  \/ \E c \in ExecCallers : SetHostCapability(c)
  \/ \E c \in ExecCallers : SetUnavailable(c)
  \/ \E c \in ExecCallers : Return(c)
  \/ ExecTick

SpecExec == Init /\ [][NextExec]_vars

\* two callers at once against a primary and a backup
ShareBackups == {<<"h2">>}
ShareOptions == {GetPlain}
ShareStatuses == {NoStatus, StatusOk, 404}
NextShare ==
  \/ \E bl \in ShareBackups : Initialize(ExecPrimary, bl)
  \/ \E c \in Calls, o \in ShareOptions : Start(c, o)
  \/ \E c \in Calls, sc \in ShareStatuses : Respond(c, sc)
  \/ \E c \in Calls : SetFallbackCapability(c)
  \/ \E c \in Calls : SetHostCapability(c)
  \/ \E c \in Calls : SetUnavailable(c)
  \/ \E c \in Calls : Return(c)
  \/ ExecTick

SpecShare == Init /\ [][NextShare]_vars

\* commands of one caller between health probes that measure the latency
LatencyBackups == {<<"h2">>}
LatencyOptions == {PostCommand}
LatencyStatuses == {NoStatus, StatusOk}
NextLatency ==
  \/ \E bl \in LatencyBackups : Initialize(ExecPrimary, bl)
  \/ \E h \in AnsweringHosts : UpdateHostStatus(h, TRUE, Latency(h))
  \/ \E c \in ExecCallers, o \in LatencyOptions : Start(c, o)
  \/ \E c \in ExecCallers, sc \in LatencyStatuses : Respond(c, sc)
  \/ \E c \in ExecCallers : SetFallbackCapability(c)
  \/ \E c \in ExecCallers : SetHostCapability(c)
  \/ \E c \in ExecCallers : SetUnavailable(c)
  \/ \E c \in ExecCallers : Return(c)

SpecLatency == Init /\ [][NextLatency]_vars

\* two callers passing different options for the same path to one host that
\* answers every request
KeyBackups == {<<>>}
KeyOptions == {GetPlain, GetRefresh, GetExplicit, GetTimeout, PostCommand}
KeyStatuses == {StatusOk}
NextKey ==
  \/ \E bl \in KeyBackups : Initialize(ExecPrimary, bl)
  \/ \E c \in Calls, o \in KeyOptions : Start(c, o)
  \/ \E c \in Calls, sc \in KeyStatuses : Respond(c, sc)
  \/ \E c \in Calls : SetFallbackCapability(c)
  \/ \E c \in Calls : SetHostCapability(c)
  \/ \E c \in Calls : Return(c)

SpecKey == Init /\ [][NextKey]_vars

\* one caller reading and refreshing the cache while entries age and expire
ExpireBackups == {<<>>}
ExpireOptions == {GetPlain, GetRefresh, GetSkip, PostCommand}
ExpireStatuses == {NoStatus, StatusOk, 404}
NextExpire ==
  \/ \E bl \in ExpireBackups : Initialize(ExecPrimary, bl)
  \/ \E c \in ExecCallers, o \in ExpireOptions : Start(c, o)
  \/ \E c \in ExecCallers, sc \in ExpireStatuses : Respond(c, sc)
  \/ \E c \in ExecCallers : SetFallbackCapability(c)
  \/ \E c \in ExecCallers : SetHostCapability(c)
  \/ \E c \in ExecCallers : SetUnavailable(c)
  \/ \E c \in ExecCallers : Return(c)
  \/ CacheTick

SpecExpire == Init /\ [][NextExpire]_vars

\* a caller of cached GETs next to a caller of commands and uncached GETs
BypassOptions == {GetSkip, PostCommand}
BypassStatuses == {NoStatus, StatusOk}
NextBypass ==
  \/ \E bl \in ExpireBackups : Initialize(ExecPrimary, bl)
  \/ Start("c1", GetPlain)
  \/ \E o \in BypassOptions : Start("c2", o)
  \/ \E c \in Calls, sc \in BypassStatuses : Respond(c, sc)
  \/ \E c \in Calls : SetFallbackCapability(c)
  \/ \E c \in Calls : SetHostCapability(c)
  \/ \E c \in Calls : SetUnavailable(c)
  \/ \E c \in Calls : Return(c)

SpecBypass == Init /\ [][NextBypass]_vars

\* one invocation by each of two callers, cached and uncached GETs, while the
\* probes of the health monitor record successes and failures of the same
\* hosts; every awaited promise (host request, capability write,
\* setUnavailable) settles
TermOptions == {GetPlain, GetSkip}
TermStatuses == {NoStatus, StatusOk, 404}
ProbedDown == {"h2"}
NextTerm ==
  \/ \E bl \in ShareBackups : Initialize(ExecPrimary, bl)
  \/ Start("c1", GetPlain)
  \/ \E o \in TermOptions : Start("c2", o)
  \/ \E c \in Calls, sc \in TermStatuses : Respond(c, sc)
  \/ \E c \in Calls : SetFallbackCapability(c)
  \/ \E c \in Calls : SetHostCapability(c)
  \/ \E c \in Calls : SetUnavailable(c)
  \/ \E h \in ProbedDown : UpdateHostStatus(h, FALSE, 0)

SpecTerm ==
  /\ Init
  /\ [][NextTerm]_vars
  /\ \A c \in Calls :
       /\ WF_vars(\E sc \in TermStatuses : Respond(c, sc))
       /\ WF_vars(SetFallbackCapability(c))
       /\ WF_vars(SetHostCapability(c))
       /\ WF_vars(SetUnavailable(c))

(* ---------------------------------------------------------------------- *)
(* The health monitor of the cluster device: _performHealthCheck           *)
(* ---------------------------------------------------------------------- *)
\* the invocation that fetches the cluster status for the health check
Monitor == "c2"

\* the ips of the online nodes a cluster status response lists
Memberships ==
  {<<"h1">>, <<"h1", "h2">>, <<"h2", "h3">>, <<"h1", "h3", "h2">>}

\* the values the setting backup_hosts is given, split at the commas
BackupSettings == {<<"h3", "h2">>, <<"h1", "h2">>, <<"h2", "h2">>}

\* _getBackupHostsFromSettings(): the entries that are not empty and not the primary
GetBackupHostsFromSettings(raw, primary) ==
  SelectSeq(raw, LAMBDA s : s # "" /\ s # primary)

\* onlineNodes.filter(ip => ip !== primaryHost && ip !== getSetting('hostname'))
NewBackupHosts(onlineNodes, primary) ==
  SelectSeq(onlineNodes, LAMBDA ip : ip # primary)

\* variant: the lists are joined in the order they come in
JoinedUnsorted(list) == list

\* [...list].sort().join(','): the addresses in ascending order, repeats kept
SortedJoin(list) ==
  SelectSeq(list, LAMBDA s : s = "h1") \o SelectSeq(list, LAMBDA s : s = "h2")
    \o SelectSeq(list, LAMBDA s : s = "h3")

\* otherNodes: the online nodes that are not yet in nodesToPing
OtherNodes(onlineNodes, primary, preferred) ==
  {onlineNodes[i] : i \in 1..Len(onlineNodes)} \ {primary, preferred}

\* step 2 of the health check: nodesToPing with a random other online node
SelectNodes(seen, onlineNodes, other) ==
  /\ other \in (IF OtherNodes(onlineNodes, primaryHost, preferredHost) = {}
                THEN {Null} ELSE OtherNodes(onlineNodes, primaryHost, preferredHost))
  /\ tick' = [seen EXCEPT !.pc = "ping", !.i = 1,
                          !.nodes = NodesToPing(primaryHost, preferredHost, other)]

\* the health check goes on once the cluster status call has settled: a
\* failure is caught and logged; a response without a data array ends the
\* check; otherwise the backup hosts are compared and written when they differ
TickFetched(onlineNodes, other) ==
  /\ tick.pc = "fetch"
  /\ calls[Monitor].pc = "done"
  /\ calls' = [calls EXCEPT ![Monitor] = IdleCall]
  /\ IF calls[Monitor].result.kind # "ok"
     THEN tick' = [tick EXCEPT !.pc = "idle", !.fetched = "failed"]
     ELSE IF calls[Monitor].result.data = NullPayload
     THEN tick' = [tick EXCEPT !.pc = "idle", !.fetched = "nodata"]
     ELSE LET sortedCurrent ==
                SortedJoin(GetBackupHostsFromSettings(backupHosts, primaryHost))
              sortedNew == SortedJoin(NewBackupHosts(onlineNodes, primaryHost))
              seen == [tick EXCEPT !.fetched = "ok", !.online = onlineNodes,
                                   !.sortedNew = sortedNew]
          IN IF sortedCurrent # sortedNew
             THEN tick' = [seen EXCEPT !.pc = "persist", !.persisted = TRUE]
             ELSE SelectNodes(seen, onlineNodes, other)
  /\ UNCHANGED <<now, hosts, circuitBreakers, primaryHost, preferredHost, streak,
                 requestCache, pendingRequests, fallbackAlarm, connectedHost, available,
                 backupHosts, life>>

\* await this.setSettings({ backup_hosts: sortedNew }).catch(...) settles
TickPersisted(stored, other) ==
  /\ tick.pc = "persist"
  /\ backupHosts' = IF stored THEN tick.sortedNew ELSE backupHosts
  /\ SelectNodes(tick, tick.online, other)
  /\ UNCHANGED <<now, hosts, circuitBreakers, primaryHost, preferredHost, streak, life>>
  /\ UNCHANGED execVars

\* the ping of the next node settles and its outcome is recorded; after the
\* last node cleanup() runs and the health check returns (down: the nodes
\* whose ping can fail)
TickPing(ok, down) ==
  /\ tick.pc = "ping"
  /\ LET host == tick.nodes[tick.i]
         last == tick.i = Len(tick.nodes)
     IN /\ ok \/ (CurrentInfo(hosts, host).failureCount < MaxFailures
                  /\ circuitBreakers[host].failures < MaxFailures
                  /\ host \in down)
        /\ \E pinged \in {UpdateHostStatusOp(Registry, primaryHost, host, ok,
                                              IF ok THEN Latency(host) ELSE 0, now)} :
             \E reg \in {IF last THEN CleanupOp(pinged, now) ELSE pinged} :
               /\ hosts' = reg.hosts
               /\ circuitBreakers' = reg.cb
               /\ preferredHost' = reg.preferred
               /\ streak' = [h \in Hosts |->
                               IF HasHost(pinged.hosts, h) /\ ~HasHost(reg.hosts, h)
                               THEN 0 ELSE StreakAfterUpdate(streak, host, ok)[h]]
        /\ tick' = [tick EXCEPT !.pc = IF last THEN "idle" ELSE "ping",
                                !.i = IF last THEN tick.i ELSE tick.i + 1,
                                !.probed = Append(tick.probed, host),
                                !.swept = last]
  /\ UNCHANGED <<now, primaryHost, backupHosts, life>>
  /\ UNCHANGED execVars

\* the interval timer fires: _performHealthCheck calls the executor for the
\* cluster status with { refreshCache: true }
TickStart ==
  /\ tick.pc = "idle"
  /\ StartCall(Monitor, GetRefresh)
  /\ tick' = [IdleTick EXCEPT !.pc = "fetch"]
  /\ UNCHANGED <<backupHosts, life>>

\* Homey stores the backup_hosts the user entered in the settings
StoreBackupHosts(raw) ==
  /\ primaryHost # Null
  /\ backupHosts # raw
  /\ backupHosts' = raw
  /\ UNCHANGED <<now, hosts, circuitBreakers, primaryHost, preferredHost, streak, tick, life>>
  /\ UNCHANGED execVars

\* the health monitor alone: cluster status responses, settings writes that
\* succeed or fail, pings that answer or fail
TickBackups == {<<"h2">>}
TickStatuses == {NoStatus, StatusOk, StatusNoContent}
NextTick ==
  \/ \E bl \in TickBackups : Initialize(ExecPrimary, bl)
  \/ TickStart
  \/ \E sc \in TickStatuses : Respond(Monitor, sc)
  \/ SetFallbackCapability(Monitor)
  \/ SetHostCapability(Monitor)
  \/ SetUnavailable(Monitor)
  \/ \E m \in Memberships, other \in Hosts \cup {Null} : TickFetched(m, other)
  \/ \E stored \in BOOLEAN, other \in Hosts \cup {Null} : TickPersisted(stored, other)
  \/ \E ok \in BOOLEAN : TickPing(ok, ProbedDown)
  \/ \E raw \in BackupSettings : StoreBackupHosts(raw)

SpecTick == Init /\ [][NextTick]_vars

\* the first health check after onInit
FirstTickStart == tick.fetched = "none" /\ TickStart

\* a health check next to the calls of one foreground caller for the same
\* path; every awaited promise settles
MonitorMemberships == {<<"h1", "h2">>}
MonitorStatuses == {NoStatus, StatusOk}
NextMonitor ==
  \/ \E bl \in TickBackups : Initialize(ExecPrimary, bl)
  \/ FirstTickStart
  \/ \E m \in MonitorMemberships, other \in Hosts \cup {Null} : TickFetched(m, other)
  \/ \E stored \in BOOLEAN, other \in Hosts \cup {Null} : TickPersisted(stored, other)
  \/ \E ok \in BOOLEAN : TickPing(ok, ProbedDown)
  \/ \E c \in ExecCallers, o \in ShareOptions : Start(c, o)
  \/ \E c \in Calls, sc \in MonitorStatuses : Respond(c, sc)
  \/ \E c \in Calls : SetFallbackCapability(c)
  \/ \E c \in Calls : SetHostCapability(c)
  \/ \E c \in Calls : SetUnavailable(c)
  \/ \E c \in ExecCallers : Return(c)

SpecMonitor ==
  /\ Init
  /\ [][NextMonitor]_vars
  /\ \A c \in Calls :
       /\ WF_vars(\E sc \in MonitorStatuses : Respond(c, sc))
       /\ WF_vars(SetFallbackCapability(c))
       /\ WF_vars(SetHostCapability(c))
       /\ WF_vars(SetUnavailable(c))
  /\ WF_vars(\E m \in MonitorMemberships, other \in Hosts \cup {Null} : TickFetched(m, other))
  /\ WF_vars(\E stored \in BOOLEAN, other \in Hosts \cup {Null} : TickPersisted(stored, other))
  /\ WF_vars(\E ok \in BOOLEAN : TickPing(ok, ProbedDown))

(* ---------------------------------------------------------------------- *)
(* Lifecycle of the cluster device: the timers it sets and clears          *)
(* ---------------------------------------------------------------------- *)
\* startPolling(interval): the running interval is cleared; with a valid
\* interval a new one is set and a managed timeout created for the first poll
StartPolling(l, valid) ==
  IF valid
  THEN [l EXCEPT !.updateIntervalId = TRUE, !.activeTimeouts = l.activeTimeouts + 1]
  ELSE [l EXCEPT !.updateIntervalId = FALSE]

\* onInit up to its first await: the host manager is initialized from the
\* settings and the connection test is on its way
OnInit(p, initialHosts) ==
  /\ life.init = "new"
  /\ ~life.deleted
  /\ primaryHost = Null
  /\ LET reg == InitializeOp(Registry, p, initialHosts, now)
     IN /\ hosts' = reg.hosts
        /\ circuitBreakers' = reg.cb
        /\ preferredHost' = reg.preferred
  /\ primaryHost' = p
  /\ life' = [life EXCEPT !.init = "testing"]
  /\ UNCHANGED <<now, streak, tick, backupHosts>>
  /\ UNCHANGED execVars

\* await this.testApiConnection() settles: updateStatusAndConnection is called
InitTested ==
  /\ life.init = "testing"
  /\ life' = [life EXCEPT !.init = "updating"]
  /\ UNCHANGED <<hmVars, execVars, tick, backupHosts>>

\* await this.updateStatusAndConnection() settles: startPolling() and
\* startHealthMonitoring()
InitUpdated(valid) ==
  /\ life.init = "updating"
  /\ life.activeTimeouts < MaxTimeouts
  /\ life' = [StartPolling(life, valid) EXCEPT !.init = "done",
                                               !.healthCheckIntervalId = TRUE]
  /\ UNCHANGED <<hmVars, execVars, tick, backupHosts>>

\* onAdded: a managed timeout for a first update
OnAdded ==
  /\ life.init # "new"
  /\ ~life.deleted
  /\ ~life.added
  /\ life' = [life EXCEPT !.added = TRUE, !.activeTimeouts = life.activeTimeouts + 1]
  /\ UNCHANGED <<hmVars, execVars, tick, backupHosts>>

\* onSettings without a new hostname, up to await updateStatusAndConnection()
OnSettings(pollChanged) ==
  /\ life.init # "new"
  /\ ~life.deleted
  /\ life.settings = "idle"
  /\ life' = [life EXCEPT !.settings = IF pollChanged THEN "polling" ELSE "updating"]
  /\ UNCHANGED <<hmVars, execVars, tick, backupHosts>>

\* the update awaited by onSettings settles: startPolling(poll_interval_cluster)
\* when that key has changed
SettingsUpdated(valid) ==
  /\ life.settings # "idle"
  /\ life.activeTimeouts < MaxTimeouts
  /\ life' = [(IF life.settings = "polling" THEN StartPolling(life, valid) ELSE life)
                EXCEPT !.settings = "idle"]
  /\ UNCHANGED <<hmVars, execVars, tick, backupHosts>>

\* a managed timeout fires: its id leaves activeTimeouts
TimeoutFires ==
  /\ life.activeTimeouts > 0
  /\ life' = [life EXCEPT !.activeTimeouts = life.activeTimeouts - 1]
  /\ UNCHANGED <<hmVars, execVars, tick, backupHosts>>

\* onDeleted: stopPolling(), stopHealthMonitoring(), _clearAllTimeouts()
OnDeleted ==
  /\ life.init # "new"
  /\ ~life.deleted
  /\ life' = [life EXCEPT !.deleted = TRUE, !.updateIntervalId = FALSE,
                          !.healthCheckIntervalId = FALSE, !.activeTimeouts = 0]
  /\ UNCHANGED <<hmVars, execVars, tick, backupHosts>>

NextLife ==
  \/ \E bl \in ExecBackups : OnInit(ExecPrimary, bl)
  \/ InitTested
  \/ \E valid \in BOOLEAN : InitUpdated(valid)
  \/ OnAdded
  \/ \E pollChanged \in BOOLEAN : OnSettings(pollChanged)
  \/ \E valid \in BOOLEAN : SettingsUpdated(valid)
  \/ TimeoutFires
  \/ OnDeleted

SpecLife == Init /\ [][NextLife]_vars

(* ---------------------------------------------------------------------- *)
(* Properties of the circuit breaker (specification Spec)                  *)
(* ---------------------------------------------------------------------- *)
\* the state a query of host h's breaker returns now
BreakerState(h) == GetCircuitBreakerState(circuitBreakers, h, now)

\* C1: counting the failures recorded on a host since its breaker was last
\* closed with failureCount 0 (no success in between), the breaker is closed
\* after the 1st and the 2nd, open on the 3rd, and still open after the 4th
\* and later ones when queried no later than 60 s after the last failure.
C1_OpensOnThirdFailure ==
  \A h \in Hosts :
    /\ streak[h] \in {1, 2} =>
         /\ circuitBreakers[h].state = "closed"
         /\ circuitBreakers[h].failures = streak[h]
    /\ (streak[h] >= 3 /\ now - circuitBreakers[h].lastFailure <= 60000) =>
         /\ BreakerState(h) = "open"
         /\ circuitBreakers[h].failures = streak[h]

\* a 4th consecutive failure was recorded and the breaker is still open
C1_Witness ==
  \E h \in Hosts :
    /\ streak[h] = 4
    /\ now - circuitBreakers[h].lastFailure <= 60000
    /\ BreakerState(h) = "open"

\* C2: whatever operations ran, a breaker whose state is open has
\* failureCount >= 3.
C2_OpenImpliesThreshold ==
  \A h \in Hosts :
    circuitBreakers[h].state = "open" => circuitBreakers[h].failures >= 3

\* a breaker is open
C2_Witness ==
  \E h \in Hosts :
    /\ circuitBreakers[h].state = "open"
    /\ circuitBreakers[h].failures >= 3

\* C3: one successful updateHostStatus on a host, whatever its failure count
\* and breaker state before, leaves the host with failureCount 0 and status
\* healthy, and its breaker closed with failureCount 0.
C3_SuccessResets ==
  [][\A h \in BreakerHosts :
       UpdateHostStatus(h, TRUE, 0) =>
         /\ HasHost(hosts', h)
         /\ HostGet(hosts', h).failureCount = 0
         /\ HostGet(hosts', h).status = "healthy"
         /\ GetCircuitBreakerState(circuitBreakers', h, now') = "closed"
         /\ circuitBreakers'[h].state \in {"none", "closed"}
         /\ circuitBreakers'[h].failures = 0]_vars

\* a host that failed earlier is healthy again, its breaker reset
C3_Witness ==
  \E h \in Hosts :
    /\ HasHost(hosts, h)
    /\ HostGet(hosts, h).status = "healthy"
    /\ HostGet(hosts, h).failureCount = 0
    /\ HostGet(hosts, h).lastFailure > 0
    /\ circuitBreakers[h].state = "closed"
    /\ circuitBreakers[h].failures = 0
    /\ circuitBreakers[h].lastFailure > 0

\* the steps that query breaker states
QueryStep(h) ==
  \/ QueryState(h)
  \/ QueryList
  \/ \E g \in BreakerHosts : UpdateHostStatus(g, TRUE, 0)

\* C4: a query of an open breaker returns open while now - lastFailure <= 60 s
\* and half-open once now - lastFailure > 60 s; the stored state goes from
\* open to half-open only in a step that queries it after the timeout, and
\* the passing of time alone changes no breaker.
C4_LazyHalfOpen ==
  /\ [](\A h \in Hosts :
          circuitBreakers[h].state = "open" =>
            BreakerState(h) = IF now - circuitBreakers[h].lastFailure <= 60000
                              THEN "open" ELSE "half-open")
  /\ [][/\ \A h \in Hosts :
            (circuitBreakers[h].state = "open" /\ circuitBreakers'[h].state = "half-open") =>
              /\ now - circuitBreakers[h].lastFailure > 60000
              /\ now' = now
              /\ QueryStep(h)
        /\ now' # now => circuitBreakers' = circuitBreakers]_vars

\* a query after the timeout has moved a breaker to half-open
C4_Witness ==
  \E h \in Hosts :
    /\ circuitBreakers[h].state = "half-open"
    /\ now - circuitBreakers[h].lastFailure > 60000

(* ---------------------------------------------------------------------- *)
(* Properties of preference and ordering (specification SpecList)          *)
(* ---------------------------------------------------------------------- *)
\* the list getOrderedHostList() returns now
OrderedHostList ==
  GetOrderedHostList(hosts, circuitBreakers, primaryHost, preferredHost, now)

ListedHosts == {OrderedHostList[i] : i \in 1..Len(OrderedHostList)}

OpenHosts == {h \in Hosts : BreakerState(h) = "open"}

\* C5 as stated: no host of the ordered list has an open breaker.
C5_NoOpenHostListed ==
  primaryHost # Null => ListedHosts \cap OpenHosts = {}

\* C5, amended: no host of the ordered list has an open breaker unless the
\* list is the last-resort singleton [primaryHost]; and when every known host
\* is excluded for its open breaker the list is that singleton.
C5_NoOpenHostUnlessLastResort ==
  primaryHost # Null =>
    /\ OrderedHostList # <<primaryHost>> => ListedHosts \cap OpenHosts = {}
    /\ HostKeys(hosts) \subseteq OpenHosts => OrderedHostList = <<primaryHost>>

\* a host with an open breaker is left out of a list of two other hosts
C5_Witness ==
  /\ primaryHost # Null
  /\ HostKeys(hosts) \cap OpenHosts # {}
  /\ Len(OrderedHostList) = 2
  /\ ListedHosts \cap OpenHosts = {}

\* C6: once a primary host is set the ordered list is never empty, also when
\* every breaker is open or every host is stale or swept.
C6_ListNeverEmpty ==
  primaryHost # Null => Len(OrderedHostList) > 0

\* every host was swept and the list is the primary alone
C6_Witness ==
  /\ primaryHost # Null
  /\ hosts = <<>>
  /\ OrderedHostList = <<primaryHost>>

\* C7: the hosts a recompute of the preference considers: known, breaker not
\* open, seen no longer ago than the window the recompute applies
C7_Eligible(hs, cb, h, t) ==
  /\ HasHost(hs, h)
  /\ GetCircuitBreakerState(cb, h, t) # "open"
  /\ t - HostGet(hs, h).lastSeen <= maxHostAge

C7_Score(hs, primary, h) ==
  1000 - HostGet(hs, h).responseTime - 100 * HostGet(hs, h).failureCount
    + (IF h = primary THEN 50 ELSE 0)

\* b is eligible, no eligible host scores higher, and no eligible host with
\* the same score comes earlier in the registry
C7_Best(hs, cb, primary, b, t) ==
  /\ C7_Eligible(hs, cb, b, t)
  /\ \A g \in Hosts :
       C7_Eligible(hs, cb, g, t) =>
         \/ C7_Score(hs, primary, g) < C7_Score(hs, primary, b)
         \/ /\ C7_Score(hs, primary, g) = C7_Score(hs, primary, b)
            /\ IndexOf(hs, b) <= IndexOf(hs, g)

C8_PreferredFirst ==
  /\ preferredHost # Null
  /\ HasHost(hosts, preferredHost)
  /\ BreakerState(preferredHost) # "open"
  /\ now - HostGet(hosts, preferredHost).lastSeen < 120000

\* C8: the hosts other than preferredHost whose breaker is not open and that
\* are not older than 300 s
C8_Others ==
  {h \in HostKeys(hosts) \ {preferredHost} :
     /\ BreakerState(h) # "open"
     /\ now - HostGet(hosts, h).lastSeen <= 300000}

C8_Position(h) == CHOOSE i \in 1..Len(OrderedHostList) : OrderedHostList[i] = h

\* C8: the ordered list has preferredHost first whenever its breaker is not
\* open and it was seen within 120 s, then every other host whose breaker is
\* not open and that is not older than 300 s, by ascending responseTime, each
\* host at most once; and no further host whenever any host qualifies.
C8_ListOrder ==
  primaryHost # Null =>
    /\ C8_PreferredFirst => (Len(OrderedHostList) > 0 /\ OrderedHostList[1] = preferredHost)
    /\ C8_Others \subseteq ListedHosts
    /\ Cardinality(ListedHosts) = Len(OrderedHostList)
    /\ \A g, h \in C8_Others :
         C8_Position(g) < C8_Position(h) =>
           HostGet(hosts, g).responseTime <= HostGet(hosts, h).responseTime
    /\ (C8_PreferredFirst \/ C8_Others # {}) =>
         ListedHosts = C8_Others \cup (IF C8_PreferredFirst THEN {preferredHost} ELSE {})

\* primary h1 healthy at 500 ms, backup h2 healthy at 10 ms and preferred,
\* backup h3 with an open breaker: the list is [h2, h1]
C8_Witness ==
  /\ primaryHost = "h1"
  /\ preferredHost = "h2"
  /\ Len(hosts) = 3
  /\ HostGet(hosts, "h1").responseTime = 500 /\ HostGet(hosts, "h1").status = "healthy"
  /\ HostGet(hosts, "h2").responseTime = 10 /\ HostGet(hosts, "h2").status = "healthy"
  /\ BreakerState("h3") = "open"
  /\ OrderedHostList = <<"h2", "h1">>

(* ---------------------------------------------------------------------- *)
(* Properties of the fallback executor (specification SpecExec)            *)
(* ---------------------------------------------------------------------- *)
\* the host an invocation is waiting for
CurrentHost(c) == calls[c].hostList[calls[c].idx]

\* the failure of the attempt is recorded against its host: failureCount of
\* the host and failures of its breaker are each one higher
FailureRecorded(c) ==
  /\ HasHost(hosts', CurrentHost(c))
  /\ HostGet(hosts', CurrentHost(c)).failureCount
       = CurrentInfo(hosts, CurrentHost(c)).failureCount + 1
  /\ circuitBreakers'[CurrentHost(c)].failures
       = circuitBreakers[CurrentHost(c)].failures + 1

\* the invocation ends here with the error of this attempt, no further host tried
EndsWithError(c, sc) ==
  /\ calls'[c].pc = "done"
  /\ calls'[c].attempts = calls[c].attempts
  /\ calls'[c].result = Failure([statusCode |-> sc, host |-> CurrentHost(c)])

\* C9: when a host answers an attempt with status 4xx, the failure is
\* recorded against that host (failureCount and breaker failures each +1), no
\* later host of the list is attempted, and the caller gets that same error.
C9_ClientErrorStopsFailover ==
  [][\A c \in Calls, sc \in Statuses :
       (sc >= 400 /\ sc < 500 /\ Respond(c, sc)) =>
         (FailureRecorded(c) /\ EndsWithError(c, sc))]_vars

\* a call ended with the 4xx of the first host while a healthy second host
\* was on its list
C9_Witness ==
  \E c \in Calls :
    /\ calls[c].pc = "done"
    /\ calls[c].result.kind = "error"
    /\ calls[c].result.error.statusCode = 404
    /\ Len(calls[c].hostList) = 2
    /\ calls[c].attempts = <<calls[c].hostList[1]>>
    /\ calls[c].result.error.host = calls[c].hostList[1]
    /\ HostGet(hosts, calls[c].hostList[2]).status = "healthy"
    /\ BreakerState(calls[c].hostList[2]) = "closed"

\* C10 as stated: when a host answers an attempt with status 5xx, no later
\* host is tried and the error goes to the caller at once, as for a 4xx.
C10_ServerErrorStopsFailover ==
  [][\A c \in Calls, sc \in Statuses :
       (sc >= 500 /\ Respond(c, sc)) => EndsWithError(c, sc)]_vars

\* C10, amended: when a host answers an attempt with status 5xx, the failure
\* is recorded against that host and the next host of the list is tried;
\* only after the last host of the list does the call fail, with that error.
C10_ServerErrorFailsOver ==
  [][\A c \in Calls, sc \in Statuses :
       (sc >= 500 /\ Respond(c, sc)) =>
         /\ FailureRecorded(c)
         /\ IF calls[c].idx < Len(calls[c].hostList)
            THEN /\ calls'[c].pc = "request"
                 /\ calls'[c].idx = calls[c].idx + 1
                 /\ calls'[c].attempts =
                      Append(calls[c].attempts, calls[c].hostList[calls[c].idx + 1])
            ELSE /\ calls'[c].attempts = calls[c].attempts
                 /\ \/ EndsWithError(c, sc)
                    \/ /\ calls'[c].pc = "unavailable"
                       /\ calls'[c].lastError = [statusCode |-> sc, host |-> CurrentHost(c)]]_vars

\* after a 5xx of the first host the call is waiting for the second host
C10_Witness ==
  \E c \in Calls :
    /\ calls[c].pc = "request"
    /\ Len(calls[c].attempts) = 2
    /\ calls[c].lastError.statusCode >= 500
    /\ calls[c].lastError.host = calls[c].hostList[1]

\* an invocation that ran out of hosts: every request it issued failed
\* without a 4xx status
Exhausted(c) ==
  \/ calls[c].pc = "unavailable"
  \/ /\ calls[c].pc = "done"
     /\ calls[c].result.kind = "error"
     /\ calls[c].result.error.host # Null
     /\ ~(calls[c].result.error.statusCode >= 400 /\ calls[c].result.error.statusCode < 500)

\* the error an exhausted invocation fails with
ExhaustionError(c) ==
  IF calls[c].pc = "unavailable" THEN calls[c].lastError ELSE calls[c].result.error

\* C11: when an attempt fails with a network error or timeout (an error
\* without status code) the failure is recorded against the host and the next
\* host of the list is tried; and when every host of the list has failed, each
\* listed host was attempted exactly once in list order, each one's
\* failureCount is 1 higher than when the call started, and the call fails
\* with the error of the last host tried.
C11_NetworkErrorFailsOver ==
  /\ [][\A c \in Calls :
          Respond(c, NoStatus) =>
            /\ FailureRecorded(c)
            /\ IF calls[c].idx < Len(calls[c].hostList)
               THEN /\ calls'[c].pc = "request"
                    /\ calls'[c].attempts =
                         Append(calls[c].attempts, calls[c].hostList[calls[c].idx + 1])
               ELSE /\ calls'[c].attempts = calls[c].attempts
                    /\ calls'[c].pc \in {"unavailable", "done"}]_vars
  /\ [](\A c \in Calls :
          Exhausted(c) =>
            /\ calls[c].attempts = calls[c].hostList
            /\ \A i, j \in 1..Len(calls[c].hostList) :
                 calls[c].hostList[i] = calls[c].hostList[j] => i = j
            /\ \A i \in 1..Len(calls[c].hostList) :
                 CurrentInfo(hosts, calls[c].hostList[i]).failureCount
                   = calls[c].failuresBefore[calls[c].hostList[i]] + 1
            /\ ExhaustionError(c).host = calls[c].hostList[Len(calls[c].hostList)])

\* both hosts of a list failed with a network error and the call has failed
\* with the error of the second
C11_Witness ==
  \E c \in Calls :
    /\ calls[c].pc = "done"
    /\ Len(calls[c].hostList) = 2
    /\ calls[c].attempts = calls[c].hostList
    /\ calls[c].lastError = [statusCode |-> NoStatus, host |-> calls[c].hostList[1]]
    /\ calls[c].result = Failure([statusCode |-> NoStatus, host |-> calls[c].hostList[2]])

(* ---------------------------------------------------------------------- *)
(* Properties of concurrent callers (specification SpecShare)              *)
(* ---------------------------------------------------------------------- *)
\* the invocation has issued requests of its own and has not settled
InFlight(c) == calls[c].pc \in {"request", "capFallback", "capHost", "unavailable"}

\* the invocation has started and has not handed its outcome to the caller
Started(c) == calls[c].pc # "idle"

SameKey(c, d) ==
  CacheKey(UrlPath, calls[c].options) = CacheKey(UrlPath, calls[d].options)

\* C12: among the callers that read the cache, at every moment at most one
\* per key has an attempt sequence in flight; a caller that starts while a
\* call for its key is in flight issues no request of its own; and when the
\* call in flight settles, every caller that joined it resolves with the same
\* outcome, success payload or failure.
C12_OneAttemptSequencePerKey ==
  /\ [](\A c, d \in Calls :
          (c # d /\ InFlight(c) /\ InFlight(d)
             /\ ReadsCache(calls[c].options) /\ ReadsCache(calls[d].options))
            => ~SameKey(c, d))
  /\ [](\A d \in Calls :
          calls[d].pc = "attached" =>
            /\ calls[d].attempts = <<>>
            /\ InFlight(calls[d].owner)
            /\ SameKey(d, calls[d].owner))
  /\ [][\A c, d \in Calls, o \in RequestOptions :
          (c # d /\ InFlight(c) /\ ReadsCache(calls[c].options) /\ ReadsCache(o)
             /\ CacheKey(UrlPath, o) = CacheKey(UrlPath, calls[c].options)
             /\ Start(d, o))
            => (calls'[d].pc = "attached" /\ calls'[d].owner = c)]_vars
  /\ [][\A c, d \in Calls :
          (InFlight(c) /\ calls[d].pc = "attached" /\ calls[d].owner = c
             /\ calls'[c].pc = "done")
            => (calls'[d].pc = "done" /\ calls'[d].result = calls'[c].result
                /\ calls'[d].attempts = <<>>)]_vars

\* a second caller joined a call in flight and both have the payload the one
\* attempt sequence obtained
C12_Witness ==
  \E c, d \in Calls :
    /\ c # d
    /\ calls[c].pc = "done" /\ calls[d].pc = "done"
    /\ calls[d].owner = c
    /\ calls[d].attempts = <<>>
    /\ Len(calls[c].attempts) = 2
    /\ calls[c].result.kind = "ok"
    /\ calls[d].result = calls[c].result

(* ---------------------------------------------------------------------- *)
(* Properties of the response cache (specification SpecExec)               *)
(* ---------------------------------------------------------------------- *)
\* C13: whatever payload a successful cacheable GET stored, a later call
\* that reads the cache with the same key gets that stored payload and issues
\* no request while now - ts < 300 s, and issues a request of its own once
\* now - ts >= 300 s; and a successful cacheable GET stores its payload with
\* ts = now.
C13_CacheServesWithinTTL ==
  /\ [][\A c \in Calls, o \in RequestOptions :
          (ReadsCache(o) /\ requestCache[CacheKey(UrlPath, o)].present /\ Start(c, o)) =>
            IF now - requestCache[CacheKey(UrlPath, o)].ts < 300000
            THEN /\ calls'[c].pc = "done"
                 /\ calls'[c].result = Success(requestCache[CacheKey(UrlPath, o)].data)
                 /\ calls'[c].attempts = <<>>
            ELSE /\ calls'[c].pc = "request"
                 /\ Len(calls'[c].attempts) = 1]_vars
  /\ [][\A c \in Calls :
          (InFlight(c) /\ Registers(calls[c].options)
             /\ calls'[c].pc = "done" /\ calls'[c].result.kind = "ok") =>
            requestCache'[CacheKey(UrlPath, calls[c].options)]
              = [data |-> calls'[c].result.data, ts |-> now, present |-> TRUE]]_vars

(* ---------------------------------------------------------------------- *)
(* Properties of failover and status reporting (specification SpecExec)    *)
(* ---------------------------------------------------------------------- *)
AttemptedHosts(c) == {calls[c].attempts[i] : i \in 1..Len(calls[c].attempts)}

\* C14: with the primary unreachable and a known backup reachable a call
\* succeeds via a backup, whatever happened before. A host that is not tried
\* may be reachable, so: no call that found the primary unreachable ends in
\* failure while a known host was left untried.
C14_FailoverReachesEveryKnownHost ==
  \A c \in Calls :
    (Exhausted(c) /\ primaryHost \in AttemptedHosts(c)
       /\ ExhaustionError(c).statusCode = NoStatus)
      => HostKeys(hosts) \subseteq AttemptedHosts(c)

C16_ExhaustionReporting ==
  /\ [][\A c \in Calls, sc \in Statuses :
          (sc \notin {200, 204} /\ ~(sc >= 400 /\ sc < 500)
             /\ calls[c].idx = Len(calls[c].hostList) /\ Respond(c, sc)) =>
            IF fallbackAlarm = "true"
            THEN /\ available' = available
                 /\ EndsWithError(c, sc)
            ELSE /\ calls'[c].pc = "unavailable"
                 /\ calls'[c].lastError = [statusCode |-> sc, host |-> CurrentHost(c)]]_vars
  /\ [][\A c \in Calls :
          (calls[c].pc = "unavailable" /\ calls'[c].pc # "unavailable") =>
            /\ available' = FALSE
            /\ calls'[c].pc = "done"
            /\ calls'[c].result = Failure(calls[c].lastError)]_vars
  /\ [][available' # available => \E c \in Calls : calls[c].pc = "unavailable"]_vars

\* in fallback mode a call ran out of hosts and the device is still available
C16_Witness ==
  \E c \in Calls :
    /\ calls[c].pc = "done"
    /\ Exhausted(c)
    /\ calls[c].attempts = calls[c].hostList
    /\ fallbackAlarm = "true"
    /\ available

\* the primary failed earlier and is healthy again: its last ping or call
\* succeeded, which closed its breaker
PrimaryRecovered ==
  /\ primaryHost # Null
  /\ HasHost(hosts, primaryHost)
  /\ HostGet(hosts, primaryHost).status = "healthy"
  /\ HostGet(hosts, primaryHost).failureCount = 0
  /\ HostGet(hosts, primaryHost).lastFailure > 0
  /\ circuitBreakers[primaryHost].state = "closed"

C17_Outscored(hs, cb, primary, t) ==
  \E g \in Hosts \ {primary} :
    /\ C7_Eligible(hs, cb, g, t)
    /\ \/ C7_Score(hs, primary, g) > C7_Score(hs, primary, primary)
       \/ /\ C7_Score(hs, primary, g) = C7_Score(hs, primary, primary)
          /\ IndexOf(hs, g) < IndexOf(hs, primary)

\* the registry after a success of the primary with latency rt is recorded now
C17_AfterPrimarySuccess(rt) ==
  UpdateHostStatusOp(Registry, primaryHost, primaryHost, TRUE, rt, now)

C18_Backups(p, initialHosts) ==
  {initialHosts[i] : i \in 1..Len(initialHosts)} \ {"", p}

\* C18: initialize(p, backups) leaves primaryHost = preferredHost = p and a
\* registry holding exactly p and every distinct non-empty backup address,
\* one entry each with p first, every one healthy with failureCount 0 and a
\* closed breaker; the primary or an empty string inside the backups list
\* adds no entry and does not move the preference.
C18_InitializePostcondition ==
  [][\A p \in Hosts, initialHosts \in BackupLists :
       Initialize(p, initialHosts) =>
         /\ primaryHost' = p
         /\ preferredHost' = p
         /\ HostKeys(hosts') = {p} \cup C18_Backups(p, initialHosts)
         /\ Len(hosts') = Cardinality({p} \cup C18_Backups(p, initialHosts))
         /\ hosts'[1].host = p
         /\ \A i \in 1..Len(hosts') :
              /\ hosts'[i].status = "healthy"
              /\ hosts'[i].failureCount = 0
              /\ hosts'[i].lastSeen = now'
              /\ GetCircuitBreakerState(circuitBreakers', hosts'[i].host, now') = "closed"]_vars

\* the state initialize("h1", ...) leaves when one backup, h2, is registered
C18_Witness ==
  /\ primaryHost = "h1"
  /\ preferredHost = "h1"
  /\ Len(hosts) = 2
  /\ hosts[1].host = "h1"
  /\ hosts[2].host = "h2"
  /\ \A i \in 1..2 : hosts[i].status = "healthy" /\ hosts[i].lastSeen = StartTime
                      /\ hosts[i].responseTime = 0
  /\ \A h \in Hosts : BreakerState(h) = "closed"
  /\ now = StartTime

\* C19 as stated: the host a recompute of the preference selects was seen
\* no more than 120 s (recentHost) ago.
C19_PreferenceOnlyAmongRecentHosts ==
  [][\A h \in AnsweringHosts :
       (UpdateHostStatus(h, TRUE, Latency(h)) /\ preferredHost' # preferredHost) =>
         now' - HostGet(hosts', preferredHost').lastSeen <= recentHost]_vars

\* a host the preference could move to: registered, healthy, breaker not
\* open, seen less than 120 s ago
C20_Eligible(g) ==
  /\ HasHost(hosts, g)
  /\ HostGet(hosts, g).status = "healthy"
  /\ BreakerState(g) # "open"
  /\ now - HostGet(hosts, g).lastSeen < recentHost

\* C20 as stated: preferredHost does not name a host whose breaker is open
\* while another host is eligible; with a healthy primary it is the primary.
C20_PreferredNeverOpen ==
  (preferredHost # Null /\ BreakerState(preferredHost) = "open") =>
    ~ \E g \in Hosts \ {preferredHost} : C20_Eligible(g)

\* the first instant at which a query finds the breaker of h half-open
C21_HalfOpenFrom(cb, h) == cb[h].lastFailure + breakerOpen + 1

\* C21 as stated: a failure recorded on a host whose breaker is open changes
\* nothing of the breaker but the failure count; the instant from which it is
\* half-open stays where it was.
C21_FailureOnOpenKeepsTimer ==
  [][\A h \in TrippingHosts :
       (BreakerState(h) = "open" /\ UpdateHostStatus(h, FALSE, 0)) =>
         /\ circuitBreakers'[h].state = "open"
         /\ C21_HalfOpenFrom(circuitBreakers', h) = C21_HalfOpenFrom(circuitBreakers, h)]_vars

\* C21: a failure recorded on a host whose breaker is open leaves it open,
\* counts the failure, and restarts the 60 s wait from that failure: the
\* breaker is still open 60 s after it and half-open from then on; the other
\* breakers, primaryHost and preferredHost are unchanged.
C21_FailureOnOpenRestartsTimer ==
  [][\A h \in TrippingHosts :
       (BreakerState(h) = "open" /\ UpdateHostStatus(h, FALSE, 0)) =>
         /\ circuitBreakers'[h].state = "open"
         /\ circuitBreakers'[h].failures = circuitBreakers[h].failures + 1
         /\ circuitBreakers'[h].lastFailure = now
         /\ GetCircuitBreakerState(circuitBreakers', h, now + breakerOpen) = "open"
         /\ GetCircuitBreakerState(circuitBreakers', h, now + breakerOpen + 1) = "half-open"
         /\ \A g \in Hosts \ {h} : circuitBreakers'[g] = circuitBreakers[g]
         /\ HostGet(hosts', h).failureCount = HostGet(hosts, h).failureCount + 1
         /\ preferredHost' = preferredHost
         /\ primaryHost' = primaryHost]_vars

\* the breaker of h1 opened at the start and a fourth failure was recorded
\* 60 s later, while it was still open
C21_Witness ==
  /\ circuitBreakers["h1"].state = "open"
  /\ circuitBreakers["h1"].failures = 4
  /\ circuitBreakers["h1"].lastFailure = StartTime + breakerOpen
  /\ streak["h1"] = 4
  /\ now = StartTime + breakerOpen

\* C22: a failure recorded on a host whose breaker reads half-open leaves it
\* open at once, whatever the number of failures since the trial began; a
\* success recorded on a host whose breaker reads half-open leaves it closed
\* with both failure counts at 0.
C22_HalfOpenTrial ==
  /\ [][\A h \in TrippingHosts :
          (BreakerState(h) = "half-open" /\ UpdateHostStatus(h, FALSE, 0)) =>
            /\ circuitBreakers'[h].state = "open"
            /\ GetCircuitBreakerState(circuitBreakers', h, now') = "open"]_vars
  /\ [][\A h \in BreakerHosts :
          (BreakerState(h) = "half-open" /\ UpdateHostStatus(h, TRUE, 0)) =>
            /\ circuitBreakers'[h].state = "closed"
            /\ circuitBreakers'[h].failures = 0
            /\ GetCircuitBreakerState(circuitBreakers', h, now') = "closed"
            /\ HostGet(hosts', h).failureCount = 0]_vars

\* h1 tripped at the start, was found half-open more than 60 s later and its
\* one failed trial opened the breaker again
C22_Witness ==
  /\ circuitBreakers["h1"].state = "open"
  /\ circuitBreakers["h1"].failures = 4
  /\ circuitBreakers["h1"].lastFailure = StartTime + breakerOpen + 1
  /\ streak["h1"] = 4
  /\ now = StartTime + breakerOpen + 1

\* the host record is younger than maxHostAge allows at most
C23_Fresh(info) == now - info.lastSeen <= maxHostAge

\* C23: cleanup() keeps, in their order and unchanged, exactly the host
\* records with now - lastSeen <= 300 s; every removed host loses its breaker
\* record, every other breaker is unchanged, and so are primaryHost and
\* preferredHost; a host with lastSeen 0 (recorded as failing only) is removed.
C23_CleanupRemovesExactlyStale ==
  [][Cleanup =>
       /\ hosts' = SelectSeq(hosts, C23_Fresh)
       /\ \A h \in Hosts :
            IF HasHost(hosts, h) /\ ~C23_Fresh(HostGet(hosts, h))
            THEN ~HasHost(hosts', h) /\ circuitBreakers'[h] = NoBreaker
            ELSE circuitBreakers'[h] = circuitBreakers[h]
       /\ \A h \in Hosts : (HasHost(hosts, h) /\ HostGet(hosts, h).lastSeen = 0)
                              => ~HasHost(hosts', h)
       /\ primaryHost' = primaryHost
       /\ preferredHost' = preferredHost]_vars

\* the primary h1, registered by initialize, was swept as stale together with
\* its breaker while the fresher h2 stays; the preference still names h1
C23_Witness ==
  /\ primaryHost = "h1"
  /\ preferredHost = "h1"
  /\ ~HasHost(hosts, "h1")
  /\ circuitBreakers["h1"] = NoBreaker
  /\ HasHost(hosts, "h2")
  /\ ~HasHost(hosts, "h3")

\* the request of invocation c to its current host is answered with success
C24_Served(c) ==
  /\ calls[c].pc = "request"
  /\ \E sc \in {StatusOk, StatusNoContent} : Respond(c, sc)

\* C24 as stated: after a success via host h the response time recorded for
\* h is the latency h answered with.
C24_SuccessRecordsLatency ==
  [][\A c \in Calls :
       C24_Served(c) =>
         HostGet(hosts', CurrentHost(c)).responseTime = Latency(CurrentHost(c))]_vars

\* C24: after a success via host h the response time recorded for h is 0,
\* whatever h answered with and whatever a health probe had measured before;
\* the success also sets lastSeen and clears the failure count.
C24_SuccessRecordsZero ==
  [][\A c \in Calls :
       C24_Served(c) =>
         /\ HostGet(hosts', CurrentHost(c)).responseTime = 0
         /\ HostGet(hosts', CurrentHost(c)).lastSeen = now
         /\ HostGet(hosts', CurrentHost(c)).failureCount = 0
         /\ HostGet(hosts', CurrentHost(c)).status = "healthy"]_vars

\* a probe had measured 10 ms for h2 and 500 ms for h1; a command then served
\* by h2 left 0 for h2 while h1 keeps its measured value
C24_Witness ==
  \E c \in Calls :
    /\ calls[c].pc = "done"
    /\ calls[c].result.kind = "ok"
    /\ calls[c].attempts = <<"h2">>
    /\ HostGet(hosts, "h2").responseTime = 0
    /\ HostGet(hosts, "h1").responseTime = 500

\* the method a request is sent with and the request two option objects ask for
C25_Method(options) == IF options.method = Absent THEN "GET" ELSE options.method
C25_SameRequest(o1, o2) ==
  C25_Method(o1) = C25_Method(o2) /\ o1.body = o2.body

\* C25 as stated: two invocations for the same path have the same key exactly
\* when they agree on method and body, whatever their other options.
C25_KeyOnlyMethodPathBody ==
  \A c, d \in Calls :
    (calls[c].pc # "idle" /\ calls[d].pc # "idle") =>
      (CacheKey(UrlPath, calls[c].options) = CacheKey(UrlPath, calls[d].options)
         <=> C25_SameRequest(calls[c].options, calls[d].options))

\* the payload the last successful force-refresh stored, NullPayload when
\* there is none within the TTL
C26_Refreshed == GetCachedResponse(requestCache, CacheKey(UrlPath, GetRefresh), now)

\* C26 as stated: once a force-refresh GET has stored its payload, and no
\* later result for the same request was stored, a GET of the same request
\* that reads the cache is served that payload at once, without a request.
C26_RefreshFeedsCache ==
  [][\A c \in Calls, o \in KeyOptions :
       (/\ ReadsCache(o)
        /\ C25_SameRequest(o, GetRefresh)
        /\ C26_Refreshed # NullPayload
        /\ requestCache[CacheKey(UrlPath, o)].ts <= requestCache[CacheKey(UrlPath, GetRefresh)].ts
        /\ Start(c, o)) =>
         /\ calls'[c].pc = "done"
         /\ calls'[c].result = Success(C26_Refreshed)]_vars

\* C27 as stated: a cache read that finds an entry stored cacheTimeout or
\* longer ago returns absent, so that the invocation goes on to a request,
\* and removes the entry from the cache.
C27_ExpiredReadEvicts ==
  [][\A c \in Calls, o \in ExpireOptions :
       (/\ ReadsCache(o)
        /\ requestCache[CacheKey(UrlPath, o)].present
        /\ now - requestCache[CacheKey(UrlPath, o)].ts >= cacheTimeout
        /\ Start(c, o)) =>
         /\ calls'[c].pc = "request"
         /\ ~requestCache'[CacheKey(UrlPath, o)].present]_vars

\* the invocation runs with a method other than GET or with skipCache
C28_Bypassing(c) ==
  /\ calls[c].pc # "idle"
  /\ (~IsGet(calls[c].options) \/ calls[c].options.skipCache)

\* C28: an invocation with a method other than GET or with skipCache starts
\* with a request of its own, also while the cache holds a payload and another
\* invocation is in flight; it is never handed the promise of another
\* invocation; and no step it takes, up to its success or failure, changes
\* the cache or the registry of pending requests.
C28_BypassLeavesCacheAndRegistry ==
  /\ [][\A c \in Calls, o \in BypassOptions :
          Start(c, o) =>
            /\ calls'[c].pc = "request"
            /\ Len(calls'[c].attempts) = 1
            /\ requestCache' = requestCache
            /\ pendingRequests' = pendingRequests]_vars
  /\ [][\A c \in Calls :
          (C28_Bypassing(c) /\ calls'[c] # calls[c]) =>
            /\ requestCache' = requestCache
            /\ pendingRequests' = pendingRequests]_vars
  /\ [](\A c \in Calls :
          C28_Bypassing(c) =>
            /\ calls[c].pc # "attached"
            /\ calls[c].owner = NoCall
            /\ calls[c].attempts # <<>>
            /\ \A k \in CacheKeys : pendingRequests[k] # c)

\* a command has failed while a GET of the other caller is registered as
\* pending and the cache is still empty
C28_Witness ==
  /\ calls["c2"].pc = "done"
  /\ calls["c2"].options = PostCommand
  /\ calls["c2"].result.kind = "error"
  /\ calls["c1"].pc = "request"
  /\ pendingRequests[CacheKey(UrlPath, GetPlain)] = "c1"
  /\ \A k \in CacheKeys : ~requestCache[k].present

\* C29: a key is registered as pending only for an invocation of that key
\* that is in flight; the step in which a registered invocation settles,
\* with a payload or with an error, removes the registration of its key, and
\* with an error it leaves the cache as it was; while no invocation is in
\* flight nothing is registered; and an invocation that reads the cache and
\* finds neither a payload nor a registration issues a request of its own.
C29_PendingOnlyWhileOutstanding ==
  /\ [](\A k \in CacheKeys :
          pendingRequests[k] # NoCall =>
            /\ InFlight(pendingRequests[k])
            /\ CacheKey(UrlPath, calls[pendingRequests[k]].options) = k)
  /\ []((\A c \in Calls : ~InFlight(c)) => \A k \in CacheKeys : pendingRequests[k] = NoCall)
  /\ [][\A c \in Calls :
          (InFlight(c) /\ Registers(calls[c].options) /\ calls'[c].pc = "done") =>
            /\ pendingRequests'[CacheKey(UrlPath, calls[c].options)] = NoCall
            /\ calls'[c].result.kind = "error" => requestCache' = requestCache]_vars
  /\ [][\A c \in Calls, o \in RequestOptions :
          (/\ ReadsCache(o)
           /\ ~requestCache[CacheKey(UrlPath, o)].present
           /\ pendingRequests[CacheKey(UrlPath, o)] = NoCall
           /\ Start(c, o)) =>
            (calls'[c].pc = "request" /\ Len(calls'[c].attempts) = 1)]_vars

\* a registered call failed on both hosts, the caller that had joined it
\* failed with it, and neither a registration nor a cache entry is left
C29_Witness ==
  \E c, d \in Calls :
    /\ c # d
    /\ calls[c].pc = "done" /\ calls[d].pc = "done"
    /\ calls[d].owner = c
    /\ calls[c].result.kind = "error"
    /\ calls[d].result = calls[c].result
    /\ Len(calls[c].attempts) = 2
    /\ \A k \in CacheKeys : pendingRequests[k] = NoCall /\ ~requestCache[k].present

\* C30: the hosts an invocation has issued a request to are the first idx
\* hosts of its list, in list order; only the request to the last of them can
\* be outstanding, and only while the invocation waits in its loop; an
\* invocation starts with the request to the first host alone, and the
\* request to the next host is issued in the step that records the failure
\* of the request to the current one, never after a success.
C30_HostsTriedOneAtATime ==
  /\ [](\A c \in Calls :
          (Started(c) /\ calls[c].hostList # <<>>) =>
            /\ calls[c].idx \in 1..Len(calls[c].hostList)
            /\ calls[c].attempts = SubSeq(calls[c].hostList, 1, calls[c].idx))
  /\ [][\A c \in Calls :
          (calls[c].pc = "idle" /\ calls'[c].pc = "request") =>
            calls'[c].attempts = <<calls'[c].hostList[1]>>]_vars
  /\ [][\A c \in Calls :
          (Started(c) /\ calls'[c].attempts # calls[c].attempts /\ Started(c)') =>
            /\ calls[c].pc = "request"
            /\ calls'[c].pc = "request"
            /\ calls'[c].attempts = Append(calls[c].attempts,
                                           calls[c].hostList[calls[c].idx + 1])
            /\ calls'[c].lastError.host = CurrentHost(c)
            /\ FailureRecorded(c)]_vars

\* the request to the backup was issued after the request to the primary had
\* failed, and is the one outstanding
C30_Witness ==
  \E c \in Calls :
    /\ calls[c].pc = "request"
    /\ calls[c].hostList = <<"h1", "h2">>
    /\ calls[c].attempts = <<"h1", "h2">>
    /\ calls[c].idx = 2
    /\ calls[c].lastError.host = "h1"
    /\ HostGet(hosts, "h1").failureCount >= 1

(* ---------------------------------------------------------------------- *)
(* Termination of the fallback executor (specification SpecTerm)           *)
(* ---------------------------------------------------------------------- *)
\* the invocation waits for a promise: one of its own, or the registered one
Waiting(c) == InFlight(c) \/ calls[c].pc = "attached"

\* C31: provided every awaited promise settles, every invocation terminates,
\* whatever the other caller and the probes of the health monitor do; it never
\* issues more requests than the host list it obtained at its start is long;
\* and it ends in exactly one of three ways: a success served by the host it
\* was waiting for, the 4xx error of that host, or exhaustion, every host of
\* its list tried and the error of the last one thrown.
C31_ExecuteTerminates ==
  /\ \A c \in Calls : Waiting(c) ~> (calls[c].pc = "done")
  /\ [](\A c \in Calls :
          /\ Len(calls[c].attempts) <= Len(calls[c].hostList)
          /\ calls[c].pc = "done" => calls[c].result.kind \in {"ok", "error"}
          /\ (calls[c].pc = "done" /\ calls[c].hostList # <<>>) =>
               IF calls[c].result.kind = "ok"
               THEN calls[c].result.data.host = CurrentHost(c)
               ELSE /\ calls[c].result.error.host = CurrentHost(c)
                    /\ \/ DoNotFailover(calls[c].result.error.statusCode)
                       \/ calls[c].attempts = calls[c].hostList)

\* while probes failed the backup three times, one call ran out of hosts
\* after two attempts and the other ended with the 404 of the primary
C31_Witness ==
  /\ calls["c1"].pc = "done"
  /\ calls["c2"].pc = "done"
  /\ Exhausted("c1")
  /\ calls["c1"].attempts = <<"h1", "h2">>
  /\ calls["c2"].result.kind = "error"
  /\ calls["c2"].result.error.statusCode = 404
  /\ calls["c2"].attempts = <<"h1">>
  /\ HostGet(hosts, "h2").failureCount >= 3

(* ---------------------------------------------------------------------- *)
(* Properties of the health monitor (specification SpecTick)               *)
(* ---------------------------------------------------------------------- *)
\* the elements of a list
Range(list) == {list[i] : i \in 1..Len(list)}

\* the outcome of a ping of host is in the registry after the step
ProbeRecorded(host) ==
  /\ HasHost(hosts', host)
  /\ \/ /\ HostGet(hosts', host).status = "healthy"
        /\ HostGet(hosts', host).failureCount = 0
        /\ HostGet(hosts', host).lastSeen = now
        /\ HostGet(hosts', host).responseTime = Latency(host)
        /\ circuitBreakers'[host].state \in {"none", "closed"}
     \/ /\ HostGet(hosts', host).status = "unhealthy"
        /\ HostGet(hosts', host).failureCount = CurrentInfo(hosts, host).failureCount + 1
        /\ circuitBreakers'[host].failures = circuitBreakers[host].failures + 1

\* C32: a health check pings at most three distinct hosts: the primary
\* always, the preferred host when it is another one, and exactly one of the
\* remaining online nodes when there is any; it pings them in that order and
\* no other host, and every ping records its outcome for the host pinged.
C32_BoundedProbeSet ==
  /\ [][(tick.pc # "ping" /\ tick'.pc = "ping") =>
          LET nodes == tick'.nodes
              further == Range(nodes) \ {primaryHost, preferredHost}
          IN /\ Len(nodes) <= 3
             /\ \A i, j \in 1..Len(nodes) : nodes[i] = nodes[j] => i = j
             /\ nodes[1] = primaryHost
             /\ preferredHost # Null => preferredHost \in Range(nodes)
             /\ further \subseteq Range(tick'.online)
             /\ Cardinality(further) =
                  IF Range(tick'.online) \ {primaryHost, preferredHost} = {} THEN 0 ELSE 1]_vars
  /\ [][(tick.pc = "ping" /\ tick' # tick) =>
          /\ tick'.probed = Append(tick.probed, tick.nodes[tick.i])
          /\ tick'.nodes = tick.nodes
          /\ ProbeRecorded(tick.nodes[tick.i])
          /\ \A h \in Hosts \ {tick.nodes[tick.i]} :
               HasHost(hosts', h) => HostGet(hosts', h) = HostGet(hosts, h)]_vars
  /\ [](/\ tick.probed = SubSeq(tick.nodes, 1, Len(tick.probed))
        /\ tick.swept => tick.probed = tick.nodes
        /\ (tick.pc = "ping") => (Len(tick.probed) = tick.i - 1))

\* a health check has pinged the primary, the preferred backup and the third
\* online node, the backup without an answer
C32_Witness ==
  /\ tick.swept
  /\ tick.probed = <<"h1", "h2", "h3">>
  /\ primaryHost = "h1"
  /\ tick.online = <<"h1", "h3", "h2">>
  /\ HostGet(hosts, "h2").status = "unhealthy"
  /\ HostGet(hosts, "h3").status = "healthy"

\* C33: the cluster status call of a health check always goes out to a host,
\* never to the cache or to a request in flight; when it fails the health
\* check ends there: no node is pinged, no backup_hosts written, no cleanup()
\* run, and the registry is left as the failed call left it.
C33_FetchFailureAbortsTick ==
  /\ [](tick.pc = "fetch" =>
          /\ calls[Monitor].pc \notin {"idle", "attached"}
          /\ calls[Monitor].hostList # <<>>
          /\ calls[Monitor].attempts # <<>>)
  /\ [][(tick.pc = "fetch" /\ calls[Monitor].pc = "done"
         /\ calls[Monitor].result.kind = "error" /\ tick' # tick) =>
          /\ tick'.pc = "idle"
          /\ tick'.fetched = "failed"
          /\ UNCHANGED <<hosts, circuitBreakers, preferredHost, backupHosts>>]_vars
  /\ [](tick.fetched = "failed" =>
          /\ tick.pc = "idle"
          /\ tick.nodes = <<>>
          /\ tick.probed = <<>>
          /\ ~tick.persisted
          /\ ~tick.swept)

\* a health check ended on a failed cluster status call although an earlier
\* one had cached a response, while the setting differs from the membership
C33_Witness ==
  /\ tick.fetched = "failed"
  /\ tick.pc = "idle"
  /\ requestCache[CacheKey(UrlPath, GetRefresh)].present
  /\ backupHosts = <<"h2", "h2">>
  /\ HostGet(hosts, "h1").failureCount >= 1

\* the step in which a health check has its cluster status and compares the
\* backup hosts
ComparesBackups == tick.pc = "fetch" /\ tick'.fetched = "ok"

\* the stored backup hosts and the online nodes other than the primary
StoredBackups == GetBackupHostsFromSettings(backupHosts, primaryHost)
DiscoveredBackups == NewBackupHosts(tick'.online, primaryHost)

Occurrences(list, h) == Cardinality({i \in 1..Len(list) : list[i] = h})

C34_TickErrorsStayInside ==
  /\ (tick.pc # "idle") ~> (tick.pc = "idle")
  /\ \A c \in ExecCallers : Waiting(c) ~> (calls[c].pc = "done")
  /\ [](\A c \in ExecCallers :
          /\ calls[c].owner # Monitor
          /\ (calls[c].pc = "done" /\ calls[c].result.kind = "error") =>
               /\ calls[c].attempts # <<>>
               /\ calls[c].result.error.host = CurrentHost(c))
  /\ [][(tick.pc = "persist" /\ tick' # tick) => tick'.pc = "ping"]_vars
  /\ [][(tick.pc = "ping" /\ tick' # tick) =>
          tick'.pc = (IF tick.i = Len(tick.nodes) THEN "idle" ELSE "ping")]_vars

\* the health check has ended after a settings write that failed and a ping
\* of the backup that failed, while a foreground call is waiting for a host
C34_Witness ==
  /\ tick.pc = "idle"
  /\ tick.swept
  /\ tick.persisted
  /\ backupHosts # tick.sortedNew
  /\ HostGet(hosts, "h2").status = "unhealthy"
  /\ \E c \in ExecCallers : calls[c].pc = "request"

(* ---------------------------------------------------------------------- *)
(* Teardown (specification SpecLife)                                       *)
(* ---------------------------------------------------------------------- *)
\* C36: once onDeleted has run, the device has no polling interval, no
\* health check interval and no managed timeout, and none is set afterwards,
\* whatever handler was waiting when the device was deleted.
C36_NoTimerAfterTeardown ==
  life.deleted =>
    /\ ~life.updateIntervalId
    /\ ~life.healthCheckIntervalId
    /\ life.activeTimeouts = 0

(* ---------------------------------------------------------------------- *)
(* The new primary and the ordered list (specification SpecList)           *)
(* ---------------------------------------------------------------------- *)
\* C37: after setPrimaryHost(h), h is the primary and the preferred host, its
\* breaker is closed with no failure counted, and the list getOrderedHostList
\* returns next contains h, whether or not h was known before.
C37_NewPrimaryIsTried ==
  [][\A h \in Hosts :
       SetPrimaryHost(h) =>
         /\ primaryHost' = h
         /\ preferredHost' = h
         /\ circuitBreakers'[h].state \in {"none", "closed"}
         /\ circuitBreakers'[h].failures = 0
         /\ h \in Range(GetOrderedHostList(hosts', circuitBreakers', primaryHost',
                                           preferredHost', now'))]_vars

\* C38: every known host whose breaker is not open and that was seen within
\* maxHostAge is in the list getOrderedHostList returns, the preferred host
\* like any other.
C38_EveryEligibleHostListed ==
  primaryHost # Null =>
    \A h \in HostKeys(hosts) :
      (/\ GetCircuitBreakerState(circuitBreakers, h, now) # "open"
       /\ now - HostGet(hosts, h).lastSeen <= maxHostAge)
        => h \in Range(GetOrderedHostList(hosts, circuitBreakers, primaryHost,
                                          preferredHost, now))

(* ---------------------------------------------------------------------- *)
(* Calls racing with probes and with each other (specification SpecTerm)   *)
(* ---------------------------------------------------------------------- *)
\* C39: whenever an invocation issues a request to a host, the breaker of
\* that host is not open at that moment, unless the list of the invocation is
\* the last-resort list of the primary alone.
C39_NoRequestToOpenHost ==
  [][\A c \in Calls :
       (calls'[c].pc = "request" /\ calls'[c].attempts # calls[c].attempts) =>
         \/ calls'[c].hostList = <<primaryHost>>
         \/ GetCircuitBreakerState(circuitBreakers',
                                   calls'[c].hostList[calls'[c].idx], now') # "open"]_vars

\* no invocation is under way
Quiescent == \A c \in Calls : calls[c].pc \in {"idle", "done"}

\* C40: whenever no invocation is under way and some call has succeeded, the
\* two capabilities agree: alarm_connection_fallback is true exactly when
\* status_connected_host names another host than the primary.
C40_StatusOutputsAgree ==
  (Quiescent /\ connectedHost # Null /\ fallbackAlarm # Null) =>
    ((fallbackAlarm = CapabilityOf(TRUE)) <=> (connectedHost # primaryHost))

====
